---- MODULE Spec2Model ----
(***************************************************************************)
(* Timetable generator: the backtracking scheduler of scheduler.py (both   *)
(* strategies), its copy in test_backtracking.py, and the constraint model *)
(* posted by build_and_solve in lastThingIHope.py.                         *)
(***************************************************************************)
EXTENDS Integers, Sequences, FiniteSets, TLC

VARIABLES
    data,               \* the input document (rooms, instructors, groups, sections, courses)
    strategy,           \* "section" | "course" | "test" | "cp"
    timetable,          \* (section_id, day, period) -> Assignment
    instructor_busy,    \* set of (instructor_id, day, period)
    room_busy,          \* set of (room_id, day, period)
    scheduled_sessions, \* section_id -> set of (course_id, session_type)
    scheduled_courses,  \* section_id -> set of course_id (test_backtracking.py)
    attempts,
    backtracks,
    stack,              \* the frames of the recursive solve_by_* calls, bottom first
    result,             \* "running" | "success" | "failed"; for "cp": "input" |
                        \* "instances" | the status build_and_solve returns
    params,             \* build_and_solve: days, periods_per_day, base_slot_minutes
    instances,          \* data['instances']
    solution,           \* build_and_solve: the values of start, room, instr, day per occurrence
    log,                \* history: the _place_assignment and _remove_assignment calls of the run
    first_run,          \* history: the outcome of an earlier run on the same input, if any
    expired,            \* solve: more than max_time_seconds have passed since start_time
    solver,             \* the fields of the TimetableSolver object of time_scheduler.py
    phase               \* generate_timetable: the phase and the position in it

vars == <<data, strategy, timetable, instructor_busy, room_busy,
          scheduled_sessions, scheduled_courses, attempts, backtracks, stack, result,
          params, instances, solution, log, first_run, expired, solver, phase>>

cp_vars == <<params, instances, solution>>

ts_vars == <<solver, phase>>

search_vars == <<timetable, instructor_busy, room_busy, scheduled_sessions,
                 scheduled_courses, attempts, backtracks, stack, log>>

\* ---------------------------------------------------------------- bounds
\* Largest number of courses a generated catalog lists.
MaxCourses == 2

\* Largest number of days and of periods per day the constraint model is built for.
MaxDays == 2
MaxPeriods == 2

\* Largest number of sub-slots in the week of the constraint model.
MaxSubslots == 8

\* Largest max_sections_together a generated Lab kind declares.
MaxBundle == 3

\* ---------------------------------------------------------------- constants
None == "None"
DAYS == 5
PERIODS_PER_DAY == 8
\* lastThingIHope.py
PERIODS_PER_DAY_CP == 4
BASE_SLOT_MINUTES == 45

\* ---------------------------------------------------------------- helpers
Range(s) == {s[i] : i \in 1..Len(s)}

RECURSIVE SumSeq(_)
SumSeq(s) == IF s = <<>> THEN 0 ELSE Head(s) + SumSeq(Tail(s))

RECURSIVE Flatten(_)
Flatten(ss) == IF ss = <<>> THEN <<>> ELSE Head(ss) \o Flatten(Tail(ss))

\* ---------------------------------------------------------------- data model
\* sessions_per_week 0 stands for a kind that declares none.
CourseKind(type, length) ==
    [type |-> type, length |-> length, lab_type |-> None,
     max_sections_together |-> 1, ignore_capacity |-> FALSE, sessions_per_week |-> 0]

Course(course_id, year, major, kinds) ==
    [course_id |-> course_id, year |-> year, major |-> major, kinds |-> kinds,
     full_year |-> FALSE, is_project |-> FALSE]

Room(room_id, type, capacity) ==
    [room_id |-> room_id, type |-> type, capacity |-> capacity]

Instructor(instr_id, role, qualified_courses) ==
    [instr_id |-> instr_id, role |-> role, qualified_courses |-> qualified_courses]

Group(group_id, year, specialization, students_count) ==
    [group_id |-> group_id, year |-> year, specialization |-> specialization,
     students_count |-> students_count]

Section(section_id, group_id, students_count) ==
    [section_id |-> section_id, group_id |-> group_id, students_count |-> students_count]

Assignment(course_id, session_type, day, period, sections, duration, instructor_id, room_id) ==
    [course_id |-> course_id, session_type |-> session_type, day |-> day,
     period |-> period, sections |-> sections, duration |-> duration,
     instructor_id |-> instructor_id, room_id |-> room_id]

NoAssignment == Assignment(None, None, 0, 0, <<>>, 0, None, None)

\* ---------------------------------------------------------------- indexes
group_by_id(gid) == CHOOSE g \in Range(data.groups) : g.group_id = gid

section_by_id(sid) == CHOOSE s \in Range(data.sections) : s.section_id = sid

sections_by_group(gid) == SelectSeq(data.sections, LAMBDA s : s.group_id = gid)

sections_by_year(year) ==
    LET gs == SelectSeq(data.groups, LAMBDA g : g.year = year)
    IN  Flatten([i \in 1..Len(gs) |-> sections_by_group(gs[i].group_id)])

course_by_id(cid) == CHOOSE c \in Range(data.courses) : c.course_id = cid

room_by_id(rid) == CHOOSE r \in Range(data.rooms) : r.room_id = rid

SectionIds == {s.section_id : s \in Range(data.sections)}

IdsOf(secs) == [i \in 1..Len(secs) |-> secs[i].section_id]

instructor_by_id(iid) == CHOOSE instr \in Range(data.instructors) : instr.instr_id = iid

\* ---------------------------------------------------------------- domains
\* _get_qualified_instructors without the role test.
_get_qualified_instructors_any_role(course_id, session_type) ==
    LET q == SelectSeq(data.instructors, LAMBDA instr :
                course_id \in instr.qualified_courses)
    IN  [i \in 1..Len(q) |-> q[i].instr_id]

_get_qualified_instructors(course_id, session_type) ==
    LET q == SelectSeq(data.instructors, LAMBDA instr :
                /\ course_id \in instr.qualified_courses
                /\ \/ session_type = "Lecture" /\ instr.role = "Professor"
                   \/ session_type \in {"Tut", "Lab"} /\ instr.role = "TA")
    IN  [i \in 1..Len(q) |-> q[i].instr_id]

\* _get_suitable_rooms without the capacity test.
_get_suitable_rooms_no_capacity_check(session_type, students_count, lab_type, ignore_capacity) ==
    LET ok == SelectSeq(data.rooms, LAMBDA room :
                \/ session_type = "Lab" /\ lab_type # None /\ room.type = lab_type
                \/ session_type = "Lecture" /\ ignore_capacity /\ room.type = "theater"
                \/ session_type = "Lecture" /\ ~ignore_capacity
                     /\ room.type \in {"classroom", "theater"}
                \/ session_type = "Tut" /\ room.type = "classroom")
    IN  [i \in 1..Len(ok) |-> ok[i].room_id]

_get_suitable_rooms(session_type, students_count, lab_type, ignore_capacity) ==
    LET ok == SelectSeq(data.rooms, LAMBDA room :
                /\ ~(~ignore_capacity /\ room.capacity < students_count)
                /\ \/ session_type = "Lab" /\ lab_type # None /\ room.type = lab_type
                   \/ session_type = "Lecture" /\ ignore_capacity /\ room.type = "theater"
                   \/ session_type = "Lecture" /\ ~ignore_capacity
                        /\ room.type \in {"classroom", "theater"}
                   \/ session_type = "Tut" /\ room.type = "classroom")
    IN  [i \in 1..Len(ok) |-> ok[i].room_id]

\* ---------------------------------------------------------------- validity, place, remove
Cells(sections, day, period, duration) ==
    {<<sections[i], day, p>> : i \in 1..Len(sections), p \in period..(period + duration - 1)}

Slots(id, day, period, duration) ==
    {<<id, day, p>> : p \in period..(period + duration - 1)}

\* _is_valid_assignment without its section-conflict loop.
_is_valid_assignment_no_section_check(sections, day, period, duration, instructor_id, room_id) ==
    /\ ~(duration = 2 /\ period % 2 # 0)
    /\ ~(period + duration > PERIODS_PER_DAY)
    /\ Slots(instructor_id, day, period, duration) \cap instructor_busy = {}
    /\ room_id # "N/A" => Slots(room_id, day, period, duration) \cap room_busy = {}

\* _is_valid_assignment without its room-conflict loop.
_is_valid_assignment_no_room_check(sections, day, period, duration, instructor_id, room_id) ==
    /\ ~(duration = 2 /\ period % 2 # 0)
    /\ ~(period + duration > PERIODS_PER_DAY)
    /\ Cells(sections, day, period, duration) \cap DOMAIN timetable = {}
    /\ Slots(instructor_id, day, period, duration) \cap instructor_busy = {}

\* _is_valid_assignment without its period-bound test.
_is_valid_assignment_no_bound_check(sections, day, period, duration, instructor_id, room_id) ==
    /\ ~(duration = 2 /\ period % 2 # 0)
    /\ Cells(sections, day, period, duration) \cap DOMAIN timetable = {}
    /\ Slots(instructor_id, day, period, duration) \cap instructor_busy = {}
    /\ room_id # "N/A" => Slots(room_id, day, period, duration) \cap room_busy = {}

_is_valid_assignment(sections, day, period, duration, instructor_id, room_id) ==
    /\ ~(duration = 2 /\ period % 2 # 0)
    /\ ~(period + duration > PERIODS_PER_DAY)
    /\ Cells(sections, day, period, duration) \cap DOMAIN timetable = {}
    /\ Slots(instructor_id, day, period, duration) \cap instructor_busy = {}
    /\ room_id # "N/A" => Slots(room_id, day, period, duration) \cap room_busy = {}

timetable_placed(tt, a) ==
    LET new == Cells(a.sections, a.day, a.period, a.duration)
    IN  [c \in new \cup DOMAIN tt |-> IF c \in new THEN a ELSE tt[c]]

timetable_removed(tt, a) ==
    LET old == Cells(a.sections, a.day, a.period, a.duration)
    IN  [c \in (DOMAIN tt) \ old |-> tt[c]]

busy_placed(busy, id, a) ==
    IF id = "N/A" THEN busy ELSE busy \cup Slots(id, a.day, a.period, a.duration)

\* busy_removed that discards nothing.
busy_removed_nothing(busy, id, a) == busy

busy_removed(busy, id, a) ==
    IF id = "N/A" THEN busy ELSE busy \ Slots(id, a.day, a.period, a.duration)

sessions_placed(ss, a) ==
    [sid \in DOMAIN ss |->
        IF sid \in Range(a.sections)
        THEN ss[sid] \cup {<<a.course_id, a.session_type>>} ELSE ss[sid]]

\* sessions_removed that discards nothing.
sessions_removed_nothing(ss, a) == ss

sessions_removed(ss, a) ==
    [sid \in DOMAIN ss |->
        IF sid \in Range(a.sections)
        THEN ss[sid] \ {<<a.course_id, a.session_type>>} ELSE ss[sid]]

_place_assignment(a) ==
    /\ timetable' = timetable_placed(timetable, a)
    /\ scheduled_sessions' = sessions_placed(scheduled_sessions, a)
    /\ instructor_busy' = instructor_busy \cup Slots(a.instructor_id, a.day, a.period, a.duration)
    /\ room_busy' = busy_placed(room_busy, a.room_id, a)

_remove_assignment(a) ==
    /\ timetable' = timetable_removed(timetable, a)
    /\ scheduled_sessions' = sessions_removed(scheduled_sessions, a)
    /\ instructor_busy' = instructor_busy \ Slots(a.instructor_id, a.day, a.period, a.duration)
    /\ room_busy' = busy_removed(room_busy, a.room_id, a)

\* ---------------------------------------------------------------- cohorts
Eligible(g, course) ==
    /\ g.year = course.year
    /\ course.major = None \/ g.specialization = course.major

\* LabGrouping that puts all the sections in one bundle.
LabGrouping_one_bundle(secs, groups, current_group, max_per_lab) == << IdsOf(secs) >>

RECURSIVE LabGrouping(_, _, _, _)
LabGrouping(secs, groups, current_group, max_per_lab) ==
    IF secs = <<>>
    THEN IF current_group # <<>> THEN Append(groups, current_group) ELSE groups
    ELSE IF Len(current_group) < max_per_lab
         THEN LabGrouping(Tail(secs), groups,
                          Append(current_group, Head(secs).section_id), max_per_lab)
         ELSE LabGrouping(Tail(secs), Append(groups, current_group),
                          <<Head(secs).section_id>>, max_per_lab)

_get_target_sections(course, kind, reference_section) ==
    LET year_ids == IdsOf(sections_by_year(course.year))
        groups   == SelectSeq(data.groups, LAMBDA g : Eligible(g, course))
        sections == SelectSeq(data.sections,
                              LAMBDA s : Eligible(group_by_id(s.group_id), course))
        bundles  == LabGrouping(sections, <<>>, <<>>, kind.max_sections_together)
    IN  IF course.is_project
        THEN << IdsOf(sections_by_group(reference_section.group_id)) >>
        ELSE IF course.full_year
        THEN IF kind.type \in {"Lecture", "Lab"}
             THEN << year_ids >>
             ELSE [i \in 1..Len(year_ids) |-> << year_ids[i] >>]
        ELSE IF kind.type = "Lecture"
        THEN [i \in 1..Len(groups) |-> IdsOf(sections_by_group(groups[i].group_id))]
        ELSE IF kind.type = "Tut"
        THEN [i \in 1..Len(sections) |-> << sections[i].section_id >>]
        ELSE IF kind.type = "Lab"
        THEN IF bundles # <<>> THEN bundles
             ELSE [i \in 1..Len(sections) |-> << sections[i].section_id >>]
        ELSE <<>>

_is_course_complete_for_section(course, section_id) ==
    {<<course.course_id, k.type>> : k \in Range(course.kinds)}
        \subseteq scheduled_sessions[section_id]

\* The sessions of the course-by-course strategy, as (course index, kind index, cohort).
_get_all_sessions_to_schedule ==
    Flatten([ci \in 1..Len(data.courses) |->
        Flatten([ki \in 1..Len(data.courses[ci].kinds) |->
            LET tg == _get_target_sections(data.courses[ci], data.courses[ci].kinds[ki],
                                           data.sections[1])
            IN  [gi \in 1..Len(tg) |-> [course |-> ci, kind |-> ki, sections |-> tg[gi]]]
        ])
    ])

\* ---------------------------------------------------------------- catalogs
WorldRooms ==
    << Room("R1", "classroom", 100), Room("R2", "classroom", 50),
       Room("T1", "theater", 200), Room("L1", "computer lab", 40) >>

PoolIds == {"C1", "C2", "C3", "C4", "C5", "C6"}

WorldInstructors ==
    << Instructor("P1", "Professor", PoolIds), Instructor("P2", "Professor", {"C1", "C2"}),
       Instructor("T1", "TA", PoolIds) >>

WorldGroups == << Group("G1", 1, None, 40), Group("G2", 2, "CS", 20) >>

WorldSections ==
    << Section("G1-S1", "G1", 20), Section("G1-S2", "G1", 20), Section("G2-S1", "G2", 20) >>

Pool ==
    << Course("C1", 1, None, << CourseKind("Lecture", 90) >>),
       Course("C2", 1, None, << CourseKind("Lecture", 90), CourseKind("Tut", 45) >>),
       Course("C3", 2, None, << CourseKind("Tut", 45), CourseKind("Lecture", 135) >>),
       Course("C4", 1, None, << CourseKind("Lecture", 90), CourseKind("Lecture", 45) >>),
       Course("C5", 1, None,
              << [CourseKind("Lab", 90) EXCEPT !.lab_type = "computer lab",
                                               !.max_sections_together = 2] >>),
       [Course("C6", 2, "CS", << CourseKind("Lecture", 90) >>) EXCEPT !.is_project = TRUE] >>

Catalog(rooms, instructors, groups, sections, courses) ==
    [rooms |-> rooms, instructors |-> instructors, groups |-> groups,
     sections |-> sections, courses |-> courses]

\* Every list of up to MaxCourses distinct courses of the pool, in every order.
FamilyCatalogs ==
    LET picks == {s \in UNION {[1..n -> 1..Len(Pool)] : n \in 0..MaxCourses} :
                    \A i, j \in DOMAIN s : i # j => s[i] # s[j]}
    IN  {Catalog(WorldRooms, WorldInstructors, WorldGroups, WorldSections,
                 [i \in DOMAIN s |-> Pool[s[i]]]) : s \in picks}

\* One section whose week is full but for one day: the 90-minute session has to be
\* moved twice before the 225-minute one fits.
BacktrackCatalog ==
    Catalog(<< Room("R1", "classroom", 100) >>,
            << Instructor("T1", "TA", {"B1", "B2", "B3", "B4", "A", "E", "D"}) >>,
            << Group("G1", 1, None, 20) >>,
            << Section("G1-S1", "G1", 20) >>,
            << Course("B1", 1, None, << CourseKind("Tut", 360) >>),
               Course("B2", 1, None, << CourseKind("Tut", 360) >>),
               Course("B3", 1, None, << CourseKind("Tut", 360) >>),
               Course("B4", 1, None, << CourseKind("Tut", 360) >>),
               Course("A", 1, None, << CourseKind("Tut", 45) >>),
               Course("E", 1, None, << CourseKind("Tut", 90) >>),
               Course("D", 1, None, << CourseKind("Tut", 225) >>) >>)

\* The second course has no qualified instructor: every placement of the first fails.
InfeasibleCatalog ==
    Catalog(WorldRooms, WorldInstructors, WorldGroups, WorldSections,
            << Pool[1], Course("CX", 1, None, << CourseKind("Lecture", 90) >>) >>)

SMALL_TEST_DATA ==
    Catalog(<< Room("R1", "classroom", 100), Room("R2", "classroom", 50),
               Room("T1", "theater", 200) >>,
            << Instructor("P1", "Professor", {"C1", "C2"}),
               Instructor("T1", "TA", {"C1", "C2"}) >>,
            << Group("G1", 1, None, 40) >>,
            << Section("G1-S1", "G1", 20), Section("G1-S2", "G1", 20) >>,
            << Pool[1], Pool[2] >>)

\* Two groups of one year, three sections in all, and a Lab kind that bundles up to
\* m sections.
LabCatalog(m) ==
    Catalog(<< Room("L2", "computer lab", 80) >>,
            << Instructor("T1", "TA", {"C8"}) >>,
            << Group("G1", 1, None, 40), Group("G3", 1, None, 20) >>,
            << Section("G1-S1", "G1", 20), Section("G1-S2", "G1", 20),
               Section("G3-S1", "G3", 20) >>,
            << Course("C8", 1, None,
                      << [CourseKind("Lab", 90) EXCEPT !.lab_type = "computer lab",
                                                       !.max_sections_together = m] >>) >>)

LabCatalogs == {LabCatalog(m) : m \in 1..MaxBundle}

\* A Lecture kind whose length is not a multiple of 45 minutes.
OddLengthCatalog ==
    Catalog(<< Room("R1", "classroom", 100) >>,
            << Instructor("P1", "Professor", {"C9"}) >>,
            << Group("G1", 1, None, 20) >>,
            << Section("G1-S1", "G1", 20) >>,
            << Course("C9", 1, None, << CourseKind("Lecture", 100) >>) >>)

\* A theater smaller than the group, listed first: the plain Lecture has to pass it
\* over, the full-year Lecture that ignores capacity takes it.
CapacityCatalog ==
    Catalog(<< Room("T2", "theater", 30), Room("R1", "classroom", 100) >>,
            << Instructor("P1", "Professor", {"C1", "C7"}) >>,
            << Group("G1", 1, None, 40) >>,
            << Section("G1-S1", "G1", 20), Section("G1-S2", "G1", 20) >>,
            << Pool[1],
               [Course("C7", 1, None,
                       << [CourseKind("Lecture", 90) EXCEPT !.ignore_capacity = TRUE] >>)
                   EXCEPT !.full_year = TRUE] >>)

\* A Tut kind shorter than one period: 30 // 45 = 0 periods.
ShortLengthCatalog ==
    Catalog(<< Room("R1", "classroom", 100) >>,
            << Instructor("P1", "Professor", {"C9"}), Instructor("T1", "TA", {"C9"}) >>,
            << Group("G1", 1, None, 20) >>,
            << Section("G1-S1", "G1", 20), Section("G1-S2", "G1", 20) >>,
            << Course("C9", 1, None, << CourseKind("Lecture", 90), CourseKind("Tut", 30) >>) >>)

\* The last section names a group that the catalog does not list; the one course has
\* a Lecture kind only.
DanglingCatalog ==
    Catalog(WorldRooms, WorldInstructors,
            << Group("G1", 1, None, 40) >>,
            << Section("G1-S1", "G1", 20), Section("G1-S2", "G1", 20),
               Section("GX-S1", "GX", 20) >>,
            << Pool[1] >>)

Catalogs ==
    FamilyCatalogs \cup {BacktrackCatalog, InfeasibleCatalog, SMALL_TEST_DATA}
        \cup LabCatalogs
        \cup {CapacityCatalog, OddLengthCatalog, ShortLengthCatalog, DanglingCatalog}

\* ---------------------------------------------------------------- call frames
Frame(idx, pc) ==
    [idx |-> idx, pc |-> pc, course |-> 0, kind |-> 0, target_sections |-> <<>>,
     qualified_instructors |-> <<>>, suitable_rooms |-> <<>>, duration |-> 0,
     cursor |-> 0, assignment |-> NoAssignment]

Top(stk) == stk[Len(stk)]

Pop(stk) == SubSeq(stk, 1, Len(stk) - 1)

SetTop(stk, f) == [stk EXCEPT ![Len(stk)] = f]

\* A frame whose pc is "tail" returns what its callee returns.
RECURSIVE Unwind(_)
Unwind(stk) ==
    IF stk # <<>> /\ Top(stk).pc = "tail" THEN Unwind(Pop(stk)) ELSE stk

\* The candidates of one frame's loops, numbered in the order
\* day x period x instructor x room.
NumCandidates(f) ==
    DAYS * PERIODS_PER_DAY * Len(f.qualified_instructors) * Len(f.suitable_rooms)

Candidate(f, c) ==
    LET nr == Len(f.suitable_rooms)
        ni == Len(f.qualified_instructors)
    IN  [room_id       |-> f.suitable_rooms[(c % nr) + 1],
         instructor_id |-> f.qualified_instructors[((c \div nr) % ni) + 1],
         period        |-> (c \div (nr * ni)) % PERIODS_PER_DAY,
         day           |-> c \div (nr * ni * PERIODS_PER_DAY)]

ValidCandidates(f) ==
    {c \in f.cursor..(NumCandidates(f) - 1) :
        LET k == Candidate(f, c)
        IN  _is_valid_assignment(f.target_sections, k.day, k.period, f.duration,
                                 k.instructor_id, k.room_id)}

FirstOf(S) == CHOOSE c \in S : \A d \in S : c <= d

\* The frame entering its loops for one session.
LoopFrame(idx, ci, ki, target_sections) ==
    LET course == data.courses[ci]
        kind   == course.kinds[ki]
        students_count ==
            SumSeq([i \in 1..Len(target_sections) |->
                        section_by_id(target_sections[i]).students_count])
    IN  [idx |-> idx, pc |-> "loop", course |-> ci, kind |-> ki,
         target_sections |-> target_sections,
         qualified_instructors |-> _get_qualified_instructors(course.course_id, kind.type),
         suitable_rooms |->
            IF course.is_project THEN << "N/A" >>
            ELSE _get_suitable_rooms(kind.type, students_count, kind.lab_type,
                                     kind.ignore_capacity),
         duration |-> kind.length \div 45,
         cursor |-> 0, assignment |-> NoAssignment]

\* ---------------------------------------------------------------- test_backtracking.py: state updates
courses_placed(sc, a) ==
    [sid \in DOMAIN sc |->
        IF sid \in Range(a.sections) THEN sc[sid] \cup {a.course_id} ELSE sc[sid]]

courses_removed(sc, a) ==
    [sid \in DOMAIN sc |->
        IF sid \in Range(a.sections) THEN sc[sid] \ {a.course_id} ELSE sc[sid]]

Test_place_assignment(a) ==
    /\ timetable' = timetable_placed(timetable, a)
    /\ scheduled_courses' = courses_placed(scheduled_courses, a)
    /\ instructor_busy' = instructor_busy \cup Slots(a.instructor_id, a.day, a.period, a.duration)
    /\ room_busy' = busy_placed(room_busy, a.room_id, a)
    /\ UNCHANGED scheduled_sessions

Test_remove_assignment(a) ==
    /\ timetable' = timetable_removed(timetable, a)
    /\ scheduled_courses' = courses_removed(scheduled_courses, a)
    /\ instructor_busy' = instructor_busy \ Slots(a.instructor_id, a.day, a.period, a.duration)
    /\ room_busy' = busy_removed(room_busy, a.room_id, a)
    /\ UNCHANGED scheduled_sessions

\* The scheduler class in use places and removes an assignment its own way.
Place(a) ==
    /\ log' = Append(log, <<"place", a>>)
    /\ IF strategy = "test" THEN Test_place_assignment(a)
       ELSE _place_assignment(a) /\ UNCHANGED scheduled_courses

Remove(a) ==
    /\ log' = Append(log, <<"remove", a>>)
    /\ IF strategy = "test" THEN Test_remove_assignment(a)
       ELSE _remove_assignment(a) /\ UNCHANGED scheduled_courses

\* ---------------------------------------------------------------- the search, common steps
\* The top frame returns False: tail callers return False too, and the caller that
\* placed an assignment counts a backtrack, removes it and goes on with its loops.
ReturnFalse ==
    LET callers == Unwind(Pop(stack))
    IN  IF callers = <<>>
        THEN /\ result' = "failed"
             /\ stack' = <<>>
             /\ UNCHANGED <<timetable, instructor_busy, room_busy, scheduled_sessions,
                            scheduled_courses, backtracks, log>>
        ELSE /\ backtracks' = backtracks + 1
             /\ Remove(Top(callers).assignment)
             /\ stack' = SetTop(callers, [Top(callers) EXCEPT !.assignment = NoAssignment])
             /\ UNCHANGED result

\* PlaceNext with the first two valid candidates visited in either order.
PlaceNext_any_candidate(next_idx) ==
    LET f == Top(stack)
        course == data.courses[f.course]
        first == FirstOf(ValidCandidates(f))
        others == ValidCandidates(f) \ {first}
    IN  \E c \in IF ValidCandidates(f) = {} THEN {}
                  ELSE IF others = {} THEN {first} ELSE {first, FirstOf(others)} :
            LET k == Candidate(f, c)
                assignment == Assignment(course.course_id, course.kinds[f.kind].type,
                                         k.day, k.period, f.target_sections, f.duration,
                                         k.instructor_id, k.room_id)
            IN  /\ attempts' = attempts + (c - f.cursor) + 1
                /\ Place(assignment)
                /\ stack' = Append(SetTop(stack, [f EXCEPT !.cursor = c + 1,
                                                           !.assignment = assignment]),
                                   Frame(next_idx, "call"))
                /\ UNCHANGED <<data, strategy, backtracks, result>>

\* The loops of the top frame reach their first valid candidate: place it and recurse.
PlaceNext(next_idx) ==
    LET f == Top(stack)
        c == FirstOf(ValidCandidates(f))
        k == Candidate(f, c)
        course == data.courses[f.course]
        assignment == Assignment(course.course_id, course.kinds[f.kind].type, k.day,
                                 k.period, f.target_sections, f.duration,
                                 k.instructor_id, k.room_id)
    IN  /\ ValidCandidates(f) # {}
        /\ attempts' = attempts + (c - f.cursor) + 1
        /\ Place(assignment)
        /\ stack' = Append(SetTop(stack, [f EXCEPT !.cursor = c + 1,
                                                   !.assignment = assignment]),
                           Frame(next_idx, "call"))
        /\ UNCHANGED <<data, strategy, backtracks, result>>

\* The loops of the top frame end without a valid candidate: return False.
LoopsExhausted ==
    LET f == Top(stack)
    IN  /\ ValidCandidates(f) = {}
        /\ attempts' = attempts + (NumCandidates(f) - f.cursor)
        /\ ReturnFalse
        /\ UNCHANGED <<data, strategy>>

ReturnTrue ==
    /\ result' = "success"
    /\ stack' = <<>>
    /\ UNCHANGED <<data, strategy, log, timetable, instructor_busy, room_busy,
                   scheduled_sessions, scheduled_courses, attempts, backtracks>>

TailCall(next_idx) ==
    /\ stack' = Append(SetTop(stack, [Top(stack) EXCEPT !.pc = "tail"]),
                       Frame(next_idx, "call"))
    /\ UNCHANGED <<data, strategy, log, timetable, instructor_busy, room_busy,
                   scheduled_sessions, scheduled_courses, attempts, backtracks, result>>

EnterLoops(lf) ==
    IF lf.qualified_instructors = <<>> \/ lf.suitable_rooms = <<>>
    THEN ReturnFalse /\ UNCHANGED <<data, strategy, attempts>>
    ELSE /\ stack' = SetTop(stack, lf)
         /\ UNCHANGED <<data, strategy, log, timetable, instructor_busy, room_busy,
                        scheduled_sessions, scheduled_courses, attempts, backtracks, result>>

\* A KeyError leaves the search: schedule_timetable catches it and returns the status
\* 'error'; nothing is removed on the way out.
RaiseKeyError ==
    /\ result' = "error"
    /\ stack' = <<>>
    /\ UNCHANGED <<data, strategy, log, timetable, instructor_busy, room_busy,
                   scheduled_sessions, scheduled_courses, attempts, backtracks>>

Running(s, pc) ==
    /\ strategy = s
    /\ result = "running"
    /\ stack # <<>>
    /\ Top(stack).pc = pc

\* ---------------------------------------------------------------- strategy 2: course by course
already_scheduled(course, kind, target_sections) ==
    \A sid \in Range(target_sections) :
        <<course.course_id, kind.type>> \in scheduled_sessions[sid]

solve_by_course_call ==
    /\ Running("course", "call")
    /\ UNCHANGED <<cp_vars, ts_vars, expired, first_run>>
    /\ LET idx == Top(stack).idx
           all_sessions == _get_all_sessions_to_schedule
       IN  IF idx >= Len(all_sessions)
           THEN ReturnTrue
           ELSE LET s == all_sessions[idx + 1]
                    course == data.courses[s.course]
                IN  IF already_scheduled(course, course.kinds[s.kind], s.sections)
                    THEN TailCall(idx + 1)
                    ELSE EnterLoops(LoopFrame(idx, s.course, s.kind, s.sections))

solve_by_course_place ==
    /\ Running("course", "loop")
    /\ UNCHANGED <<cp_vars, ts_vars, expired, first_run>>
    /\ PlaceNext(Top(stack).idx + 1)

solve_by_course_backtrack ==
    /\ Running("course", "loop")
    /\ UNCHANGED <<cp_vars, ts_vars, expired, first_run>>
    /\ LoopsExhausted

\* ---------------------------------------------------------------- strategy 1: section by section
eligible_courses(section) ==
    LET g == group_by_id(section.group_id)
    IN  {ci \in 1..Len(data.courses) :
            /\ data.courses[ci].year = g.year
            /\ \/ data.courses[ci].major = None
               \/ data.courses[ci].major = g.specialization}

target_sections_of(course, kind, section) ==
    LET target_groups == _get_target_sections(course, kind, section)
        involved == {gi \in 1..Len(target_groups) :
                        section.section_id \in Range(target_groups[gi])}
    IN  IF involved = {} THEN <<>> ELSE target_groups[FirstOf(involved)]

\* The (course, kind) pairs the loops of solve_by_section do not skip.
unscheduled_kinds(section) ==
    {p \in UNION {{<<ci, ki>> : ki \in 1..Len(data.courses[ci].kinds)} :
                        ci \in eligible_courses(section)} :
        LET course == data.courses[p[1]]
            kind   == course.kinds[p[2]]
        IN  /\ ~_is_course_complete_for_section(course, section.section_id)
            /\ ~course.is_project
            /\ <<course.course_id, kind.type>> \notin scheduled_sessions[section.section_id]
            /\ target_sections_of(course, kind, section) # <<>>}

FirstPair(S) ==
    CHOOSE p \in S : \A q \in S : p[1] < q[1] \/ (p[1] = q[1] /\ p[2] <= q[2])

solve_by_section_call ==
    /\ Running("section", "call")
    /\ UNCHANGED <<cp_vars, ts_vars, expired, first_run>>
    /\ LET idx == Top(stack).idx
       IN  IF idx >= Len(data.sections)
           THEN ReturnTrue
           ELSE LET section == data.sections[idx + 1]
                    all_scheduled ==
                        \A ci \in eligible_courses(section) :
                            _is_course_complete_for_section(data.courses[ci],
                                                            section.section_id)
                    todo == unscheduled_kinds(section)
                IN  IF data.courses # << >>
                          /\ section.group_id \notin {g.group_id : g \in Range(data.groups)}
                    THEN RaiseKeyError
                    ELSE
                    IF all_scheduled \/ todo = {}
                    THEN TailCall(idx + 1)
                    ELSE LET p == FirstPair(todo)
                             course == data.courses[p[1]]
                             kind == course.kinds[p[2]]
                             target_sections == target_sections_of(course, kind, section)
                         IN  IF already_scheduled(course, kind, target_sections)
                             THEN TailCall(idx)
                             ELSE EnterLoops(LoopFrame(idx, p[1], p[2], target_sections))

solve_by_section_place ==
    /\ Running("section", "loop")
    /\ UNCHANGED <<cp_vars, ts_vars, expired, first_run>>
    /\ PlaceNext(Top(stack).idx)

solve_by_section_backtrack ==
    /\ Running("section", "loop")
    /\ UNCHANGED <<cp_vars, ts_vars, expired, first_run>>
    /\ LoopsExhausted

\* ---------------------------------------------------------------- specification
NoParams == [days |-> 0, periods_per_day |-> 0, base_slot_minutes |-> 0]

\* No TimetableSolver object is in use.
NoSolver == [timetable |-> << >>]

InitState ==
    /\ timetable = << >>
    /\ instructor_busy = {}
    /\ room_busy = {}
    /\ scheduled_sessions = [sid \in SectionIds |-> {}]
    /\ scheduled_courses = [sid \in SectionIds |-> {}]
    /\ attempts = 0
    /\ backtracks = 0
    /\ stack = << Frame(0, "call") >>
    /\ result = "running"
    /\ params = NoParams
    /\ instances = << >>
    /\ solution = << >>
    /\ log = << >>
    /\ first_run = << >>
    /\ expired = FALSE
    /\ solver = NoSolver
    /\ phase = None

Init ==
    /\ data \in Catalogs
    /\ strategy \in {"section", "course"}
    /\ InitState

\* The clock passes start_time + max_time_seconds while solve is running.
deadline_passes ==
    /\ strategy \in {"section", "course"}
    /\ result = "running"
    /\ ~expired
    /\ expired' = TRUE
    /\ UNCHANGED <<data, strategy, result>>
    /\ UNCHANGED search_vars
    /\ UNCHANGED <<cp_vars, ts_vars, first_run>>

Next ==
    \/ solve_by_section_call
    \/ solve_by_section_place
    \/ solve_by_section_backtrack
    \/ solve_by_course_call
    \/ solve_by_course_place
    \/ solve_by_course_backtrack
    \/ deadline_passes

Spec == Init /\ [][Next]_vars

\* The outcome of a run, as solve returns it and as the log records its way there.
Outcome ==
    [result |-> result, timetable |-> timetable, attempts |-> attempts,
     backtracks |-> backtracks, log |-> log]

\* schedule_timetable is called once more with the same data and strategy: a new
\* BacktrackingScheduler starts from the initial state.
second_run ==
    /\ strategy \in {"section", "course"}
    /\ result # "running"
    /\ first_run = << >>
    /\ first_run' = << Outcome >>
    /\ timetable' = << >>
    /\ instructor_busy' = {}
    /\ room_busy' = {}
    /\ scheduled_sessions' = [sid \in SectionIds |-> {}]
    /\ scheduled_courses' = [sid \in SectionIds |-> {}]
    /\ attempts' = 0
    /\ backtracks' = 0
    /\ stack' = << Frame(0, "call") >>
    /\ log' = << >>
    /\ result' = "running"
    /\ expired' = FALSE
    /\ UNCHANGED <<data, strategy, cp_vars, ts_vars>>

NextTwice ==
    \/ solve_by_section_call
    \/ solve_by_section_place
    \/ solve_by_section_backtrack
    \/ solve_by_course_call
    \/ solve_by_course_place
    \/ solve_by_course_backtrack
    \/ deadline_passes
    \/ second_run

\* Two runs of schedule_timetable on one input, one after the other.
SpecTwice == Init /\ [][NextTwice]_vars

\* schedule_timetable is called once more with the same data and the other strategy: a
\* new BacktrackingScheduler starts from the initial state.
other_strategy_run ==
    /\ strategy \in {"section", "course"}
    /\ result # "running"
    /\ first_run = << >>
    /\ first_run' = << Outcome >>
    /\ strategy' = IF strategy = "section" THEN "course" ELSE "section"
    /\ timetable' = << >>
    /\ instructor_busy' = {}
    /\ room_busy' = {}
    /\ scheduled_sessions' = [sid \in SectionIds |-> {}]
    /\ scheduled_courses' = [sid \in SectionIds |-> {}]
    /\ attempts' = 0
    /\ backtracks' = 0
    /\ stack' = << Frame(0, "call") >>
    /\ log' = << >>
    /\ result' = "running"
    /\ expired' = FALSE
    /\ UNCHANGED <<data, cp_vars, ts_vars>>

NextBoth ==
    \/ solve_by_section_call
    \/ solve_by_section_place
    \/ solve_by_section_backtrack
    \/ solve_by_course_call
    \/ solve_by_course_place
    \/ solve_by_course_backtrack
    \/ deadline_passes
    \/ other_strategy_run

\* One input solved by one strategy and then by the other.
SpecBoth == Init /\ [][NextBoth]_vars

\* ---------------------------------------------------------------- test_backtracking.py
Test_solve_by_course_call ==
    /\ Running("test", "call")
    /\ UNCHANGED <<cp_vars, ts_vars, expired, first_run>>
    /\ LET idx == Top(stack).idx
           all_sessions == _get_all_sessions_to_schedule
       IN  IF idx >= Len(all_sessions)
           THEN ReturnTrue
           ELSE LET s == all_sessions[idx + 1]
                    course == data.courses[s.course]
                IN  IF \A sid \in Range(s.sections) :
                            course.course_id \in scheduled_courses[sid]
                    THEN TailCall(idx + 1)
                    ELSE EnterLoops(LoopFrame(idx, s.course, s.kind, s.sections))

Test_solve_by_course_place ==
    /\ Running("test", "loop")
    /\ UNCHANGED <<cp_vars, ts_vars, expired, first_run>>
    /\ PlaceNext(Top(stack).idx + 1)

Test_solve_by_course_backtrack ==
    /\ Running("test", "loop")
    /\ UNCHANGED <<cp_vars, ts_vars, expired, first_run>>
    /\ LoopsExhausted

InitTest ==
    /\ data \in Catalogs
    /\ strategy = "test"
    /\ InitState

NextTest ==
    \/ Test_solve_by_course_call
    \/ Test_solve_by_course_place
    \/ Test_solve_by_course_backtrack

SpecTest == InitTest /\ [][NextTest]_vars

\* ---------------------------------------------------------------- lastThingIHope.py: instances
subslots_needed(length_minutes, base) == length_minutes \div base

valid_room_types_for_session(session_type) ==
    CASE session_type = "Lecture" -> {"classroom", "theater", "hall"}
      [] session_type = "Tut"     -> {"classroom", "computer lab", "hall"}
      [] session_type = "Lab"     -> {"computer lab", "electronics lab", "physics lab",
                                      "chemistry lab", "bio lab"}
      [] session_type = "Project" -> {"hall", "theater", "classroom"}
      [] OTHER                    -> {"classroom"}

Instance(course_id, type, group_id, section_id, tag, sessions_per_week, length_minutes,
         expected_students, lab_type, has_instructor) ==
    [instance_id |-> <<course_id, IF group_id # None THEN group_id ELSE section_id, tag>>,
     course_id |-> course_id, type |-> type, group_id |-> group_id,
     section_id |-> section_id, sessions_per_week |-> sessions_per_week,
     length_minutes |-> length_minutes, expected_students |-> expected_students,
     lab_type |-> lab_type, has_instructor |-> has_instructor]

kind_sessions_per_week(kind, default) ==
    IF kind.sessions_per_week # 0 THEN kind.sessions_per_week ELSE default

generate_instances(courses, groups, sections) ==
    Flatten([ci \in 1..Len(courses) |->
        LET course == courses[ci]
            target_groups == SelectSeq(groups, LAMBDA g : Eligible(g, course))
            target_group_ids == {g.group_id : g \in Range(target_groups)}
            target_sections == SelectSeq(sections, LAMBDA s : s.group_id \in target_group_ids)
        IN  Flatten([ki \in 1..Len(course.kinds) |->
                LET kind == course.kinds[ki]
                    klen == kind.length
                    project_len == IF klen >= PERIODS_PER_DAY_CP * 90
                                   THEN klen ELSE PERIODS_PER_DAY_CP * 90
                IN  IF course.is_project
                    THEN [i \in 1..Len(target_groups) |->
                            Instance(course.course_id, "Project", target_groups[i].group_id,
                                     None, "PROJECT", 1, project_len,
                                     target_groups[i].students_count, None, FALSE)]
                    ELSE IF kind.type = "Lecture"
                    THEN [i \in 1..Len(target_groups) |->
                            Instance(course.course_id, "Lecture", target_groups[i].group_id,
                                     None, "LEC", kind_sessions_per_week(kind, 2), klen,
                                     target_groups[i].students_count, None, TRUE)]
                    ELSE IF kind.type = "Tut"
                    THEN [i \in 1..Len(target_sections) |->
                            Instance(course.course_id, "Tut", None,
                                     target_sections[i].section_id, "TUT",
                                     kind_sessions_per_week(kind, 1), klen,
                                     target_sections[i].students_count, None, TRUE)]
                    ELSE IF kind.type = "Lab"
                    THEN [i \in 1..Len(target_sections) |->
                            Instance(course.course_id, "Lab", None,
                                     target_sections[i].section_id, "LAB",
                                     kind_sessions_per_week(kind, 1), klen,
                                     target_sections[i].students_count, kind.lab_type, TRUE)]
                    ELSE << >>
            ])
    ])

\* ---------------------------------------------------------------- lastThingIHope.py: pre-check
room_found(inst) ==
    \E r \in Range(data.rooms) :
        /\ r.type \in valid_room_types_for_session(inst.type)
        /\ inst.type = "Lab" => r.type = inst.lab_type
        /\ ~(inst.expected_students # 0 /\ r.capacity < inst.expected_students)

instr_qualified(instr, inst) ==
    /\ inst.course_id \in instr.qualified_courses
    /\ \/ inst.type = "Lecture" /\ instr.role = "Professor"
       \/ inst.type \in {"Lab", "Tut"} /\ instr.role = "TA"

\* instance_errors without the room entry.
instance_errors_no_room_entry(inst) ==
    (IF inst.length_minutes % params.base_slot_minutes # 0
     THEN << <<inst.instance_id, "invalid length_minutes">> >> ELSE << >>)
    \o
    (IF inst.type = "Lab" /\ inst.lab_type = None
     THEN << <<inst.instance_id, "lab_type not specified">> >>
     ELSE IF inst.type # "Project"
               /\ ~\E instr \in Range(data.instructors) : instr_qualified(instr, inst)
          THEN << <<inst.instance_id, "no qualified instructor">> >> ELSE << >>)

instr_found(inst) == \E instr \in Range(data.instructors) : instr_qualified(instr, inst)

\* The error entries of one instance, in the order they are appended.
instance_errors(inst) ==
    (IF inst.length_minutes % params.base_slot_minutes # 0
     THEN << <<inst.instance_id, "invalid length_minutes">> >> ELSE << >>)
    \o
    (IF inst.type = "Lab" /\ inst.lab_type = None
     THEN << <<inst.instance_id, "lab_type not specified">> >>
     ELSE (IF ~room_found(inst)
           THEN << <<inst.instance_id, "no compatible room">> >> ELSE << >>)
          \o
          (IF inst.type # "Project" /\ ~instr_found(inst)
           THEN << <<inst.instance_id, "no qualified instructor">> >> ELSE << >>))

quick_feasibility_checks ==
    Flatten([i \in 1..Len(instances) |-> instance_errors(instances[i])])

\* ---------------------------------------------------------------- lastThingIHope.py: the model
slots_per_day == params.periods_per_day * (90 \div params.base_slot_minutes)

total_subslots == params.days * slots_per_day

occurrences ==
    Flatten([i \in 1..Len(instances) |->
        [occ \in 1..instances[i].sessions_per_week |->
            [instance |-> instances[i], occ |-> occ - 1]]])

needed_of(inst) == subslots_needed(inst.length_minutes, params.base_slot_minutes)

valid_starts(inst) ==
    {s \in 0..(total_subslots - needed_of(inst)) :
        (s \div slots_per_day) = ((s + needed_of(inst) - 1) \div slots_per_day)}

\* Rooms and instructors are named by their position in the input lists, from 1.
room_candidates(inst) ==
    LET c == {r \in 1..Len(data.rooms) :
                /\ data.rooms[r].type \in valid_room_types_for_session(inst.type)
                /\ ~(inst.type = "Lab" /\ inst.lab_type # None
                        /\ data.rooms[r].type # inst.lab_type)
                /\ ~(inst.expected_students # 0
                        /\ data.rooms[r].capacity < inst.expected_students)}
    IN  IF c # {} THEN c ELSE IF data.rooms # << >> THEN 1..Len(data.rooms) ELSE {1}

\* The rooms that pass the filter of build_and_solve, before its all-rooms fallback.
room_domain(inst) ==
    {r \in 1..Len(data.rooms) :
        /\ data.rooms[r].type \in valid_room_types_for_session(inst.type)
        /\ ~(inst.type = "Lab" /\ inst.lab_type # None
                /\ data.rooms[r].type # inst.lab_type)
        /\ ~(inst.expected_students # 0
                /\ data.rooms[r].capacity < inst.expected_students)}

instr_candidates(inst) ==
    IF inst.type = "Project" \/ ~inst.has_instructor
    THEN {}
    ELSE {ii \in 1..Len(data.instructors) : instr_qualified(data.instructors[ii], inst)}

\* The (start, day) pairs of AddAllowedAssignments.
start_day_pairs(inst) ==
    {<<s, s \div slots_per_day>> : s \in
        {s \in 0..(total_subslots - needed_of(inst)) :
            (s \div slots_per_day) = ((s + needed_of(inst) - 1) \div slots_per_day)}}

\* The values one occurrence's start, room, instr and day variables may take together;
\* instr is 0 when the occurrence has no instructor variable.
occurrence_values(inst) ==
    {v \in [start : valid_starts(inst),
            room  : room_candidates(inst),
            instr : IF instr_candidates(inst) = {} THEN {0} ELSE instr_candidates(inst),
            day   : 0..(params.days - 1)] :
        <<v.start, v.day>> \in start_day_pairs(inst)}

share_students(inst_i, inst_j) ==
    \/ inst_i.group_id # None /\ inst_j.group_id # None /\ inst_i.group_id = inst_j.group_id
    \/ inst_i.section_id # None /\ inst_j.section_id # None
          /\ inst_i.section_id = inst_j.section_id

\* pair_constraints without the two clauses on same_room.
pair_constraints_no_room_clauses(inst_i, inst_j, vi, vj) ==
    LET same_day   == vi.day = vj.day
        i_before_j == vi.start + needed_of(inst_i) <= vj.start
        j_before_i == vj.start + needed_of(inst_j) <= vi.start
        same_instr == vi.instr = vj.instr
    IN  /\ share_students(inst_i, inst_j) => (i_before_j \/ j_before_i)
        /\ vi.instr # 0 /\ vj.instr # 0 =>
              (i_before_j \/ j_before_i \/ ~same_instr \/ ~same_day)

\* The constraints posted for the pair i < j, on the values vi and vj of the two
\* occurrences; each Boolean variable is fixed by its two reified constraints.
pair_constraints(inst_i, inst_j, vi, vj) ==
    LET same_room  == vi.room = vj.room
        same_day   == vi.day = vj.day
        i_before_j == vi.start + needed_of(inst_i) <= vj.start
        j_before_i == vj.start + needed_of(inst_j) <= vi.start
        same_instr == vi.instr = vj.instr
    IN  /\ same_room => (i_before_j \/ j_before_i)
        /\ share_students(inst_i, inst_j) => (i_before_j \/ j_before_i)
        /\ vi.instr # 0 /\ vj.instr # 0 =>
              (i_before_j \/ j_before_i \/ ~same_instr \/ ~same_day)
        /\ i_before_j \/ j_before_i \/ ~same_day \/ ~same_room

\* project_grouping with no constraint posted.
project_grouping_off(sol) == TRUE

project_grouping(sol) ==
    \A gid \in {g.group_id : g \in Range(data.groups)} :
        LET idxs == {i \in 1..Len(occurrences) :
                        /\ occurrences[i].instance.type = "Project"
                        /\ occurrences[i].instance.group_id = gid}
        IN  \A other \in idxs : sol[FirstOf(idxs)].day = sol[other].day

posted_constraints(sol) ==
    /\ \A i \in 1..Len(sol) : sol[i] \in occurrence_values(occurrences[i].instance)
    /\ \A i, j \in 1..Len(sol) :
          i < j => pair_constraints(occurrences[i].instance, occurrences[j].instance,
                                    sol[i], sol[j])
    /\ project_grouping(sol)

\* The value lists for the first k occurrences that satisfy the pair constraints.
RECURSIVE partial_assignments(_)
partial_assignments(k) ==
    IF k = 0 THEN {<< >>}
    ELSE LET extended == {Append(sol, v) : sol \in partial_assignments(k - 1),
                                           v \in occurrence_values(occurrences[k].instance)}
         IN  {s \in extended :
                \A i \in 1..(k - 1) :
                    pair_constraints(occurrences[i].instance, occurrences[k].instance,
                                     s[i], s[k])}

satisfying_assignments ==
    {sol \in partial_assignments(Len(occurrences)) : posted_constraints(sol)}

\* ---------------------------------------------------------------- lastThingIHope.py: steps
RunningCP(at) ==
    /\ strategy = "cp"
    /\ result = at
    /\ UNCHANGED <<data, strategy, params>>
    /\ UNCHANGED search_vars
    /\ UNCHANGED <<ts_vars, expired, first_run>>

main_generate_instances ==
    /\ RunningCP("input")
    /\ instances' = generate_instances(data.courses, data.groups, data.sections)
    /\ result' = "instances"
    /\ UNCHANGED solution

build_and_solve_input_error ==
    /\ RunningCP("instances")
    /\ quick_feasibility_checks # << >>
    /\ result' = "INPUT_ERROR"
    /\ UNCHANGED <<instances, solution>>

build_and_solve_solution ==
    /\ RunningCP("instances")
    /\ quick_feasibility_checks = << >>
    /\ \E sol \in satisfying_assignments : solution' = sol
    /\ result' = "OPTIMAL"
    /\ UNCHANGED instances

build_and_solve_infeasible ==
    /\ RunningCP("instances")
    /\ quick_feasibility_checks = << >>
    /\ satisfying_assignments = {}
    /\ result' = "INFEASIBLE"
    /\ UNCHANGED <<instances, solution>>

\* The time limit ends the solve before a solution or a proof of infeasibility.
build_and_solve_unknown ==
    /\ RunningCP("instances")
    /\ quick_feasibility_checks = << >>
    /\ result' = "UNKNOWN"
    /\ UNCHANGED <<instances, solution>>

\* ---------------------------------------------------------------- lastThingIHope.py: inputs
CPRooms == << Room("R1", "classroom", 100), Room("T1", "theater", 200) >>

CPInstructors ==
    << Instructor("P1", "Professor", {"K1", "K2", "K3"}),
       Instructor("T1", "TA", {"K1", "K2", "K3"}) >>

CPGroups == << Group("G1", 1, None, 40) >>

CPSections == << Section("G1-S1", "G1", 20), Section("G1-S2", "G1", 20) >>

CPPool ==
    << Course("K1", 1, None,
              << [CourseKind("Lecture", 90) EXCEPT !.sessions_per_week = 1],
                 CourseKind("Tut", 45) >>),
       Course("K2", 1, None, << CourseKind("Lecture", 90) >>),
       Course("K3", 1, None,
              << [CourseKind("Lecture", 45) EXCEPT !.sessions_per_week = 1],
                 [CourseKind("Lecture", 90) EXCEPT !.sessions_per_week = 1] >>),
       Course("KX", 1, None, << CourseKind("Lecture", 90) >>),
       Course("K4", 1, None, << CourseKind("Tut", 45) >>) >>

\* Two classrooms and one TA: the two tutorials of K4 may differ in room only.
TwoClassrooms ==
    Catalog(<< Room("R1", "classroom", 100), Room("R2", "classroom", 50) >>,
            << Instructor("T1", "TA", {"K4"}) >>, CPGroups, CPSections, << CPPool[5] >>)

CPCatalogs ==
    {Catalog(CPRooms, CPInstructors, CPGroups, CPSections, courses) :
        courses \in {<< CPPool[1] >>, << CPPool[2] >>, << CPPool[3] >>, << CPPool[4] >>,
                     << CPPool[2], CPPool[3] >>}}
    \cup {TwoClassrooms}

ParamSets ==
    {q \in {[days |-> d, periods_per_day |-> p, base_slot_minutes |-> BASE_SLOT_MINUTES] :
                d \in 1..MaxDays, p \in 1..MaxPeriods} :
        q.days * q.periods_per_day * (90 \div q.base_slot_minutes) <= MaxSubslots}

\* A graduation project and a tutorial course for one group of one section.
ProjectTutCatalog ==
    Catalog(<< Room("R1", "classroom", 100), Room("R2", "classroom", 50) >>,
            << Instructor("T1", "TA", {"KT"}) >>,
            << Group("G4", 4, "CSC", 20) >>,
            << Section("G4-S1", "G4", 20) >>,
            << [Course("KP", 4, "CSC", << CourseKind("Lecture", 90) >>)
                   EXCEPT !.is_project = TRUE],
               Course("KT", 4, "CSC", << CourseKind("Tut", 45) >>) >>)

\* A project course with two kinds: two Project instances for the one group.
TwoProjectsCatalog ==
    Catalog(<< Room("R1", "classroom", 100), Room("R2", "classroom", 50) >>,
            << >>,
            << Group("G4", 4, "CSC", 20) >>,
            << Section("G4-S1", "G4", 20) >>,
            << [Course("KQ", 4, "CSC",
                       << CourseKind("Lecture", 90),
                          CourseKind("Lecture", PERIODS_PER_DAY_CP * 90) >>)
                   EXCEPT !.is_project = TRUE] >>)

\* A project whose kind declares more than a full day.
LongProjectCatalog ==
    Catalog(<< Room("R1", "classroom", 100) >>,
            << >>,
            << Group("G4", 4, "CSC", 20) >>,
            << Section("G4-S1", "G4", 20) >>,
            << [Course("KL", 4, "CSC", << CourseKind("Lecture", PERIODS_PER_DAY_CP * 90 + 90) >>)
                   EXCEPT !.is_project = TRUE] >>)

\* A full-year course with a Lab kind; the first lab room is smaller than a section.
FullYearCatalog ==
    Catalog(<< Room("LS", "computer lab", 10), Room("LB", "computer lab", 40) >>,
            << Instructor("T1", "TA", {"KF"}) >>,
            CPGroups, CPSections,
            << [Course("KF", 1, None,
                       << [CourseKind("Lab", 90) EXCEPT !.lab_type = "computer lab"] >>)
                   EXCEPT !.full_year = TRUE] >>)

\* A Lecture that ignores capacity, and only a theater smaller than the group.
IgnoreCapacityCatalog ==
    Catalog(<< Room("T3", "theater", 30) >>,
            << Instructor("P1", "Professor", {"KI"}) >>,
            CPGroups, CPSections,
            << Course("KI", 1, None,
                      << [CourseKind("Lecture", 90) EXCEPT !.ignore_capacity = TRUE,
                                                           !.sessions_per_week = 1] >>) >>)

\* A Lab kind without lab_type and a Tut kind, with no lab room, no room a Tut may
\* use and no TA: every instance has an empty room domain and an empty instructor domain.
PreCheckCatalog ==
    Catalog(<< Room("T3", "theater", 100) >>,
            << Instructor("P1", "Professor", {"KB", "KU"}) >>,
            CPGroups, CPSections,
            << Course("KB", 1, None, << CourseKind("Lab", 90) >>),
               Course("KU", 1, None, << CourseKind("Tut", 45) >>) >>)

\* Courses listed against the order of their ids, a Tut kind before a Lecture kind.
UnsortedCatalog ==
    Catalog(<< Room("R1", "classroom", 100), Room("R2", "classroom", 50) >>,
            << Instructor("P1", "Professor", {"KA"}), Instructor("T1", "TA", {"KT"}) >>,
            << Group("G4", 4, "CSC", 20) >>,
            << Section("G4-S1", "G4", 20) >>,
            << Course("KT", 4, "CSC", << CourseKind("Tut", 45) >>),
               Course("KA", 4, "CSC",
                      << [CourseKind("Lecture", 90) EXCEPT !.sessions_per_week = 1] >>) >>)

\* The last section names a group that the catalog does not list.
CPDanglingCatalog ==
    Catalog(<< Room("R1", "classroom", 100), Room("R2", "classroom", 50) >>,
            << Instructor("T1", "TA", {"K4"}) >>,
            CPGroups,
            CPSections \o << Section("GX-S1", "GX", 20) >>,
            << CPPool[5] >>)

\* The week of the script: PERIODS_PER_DAY periods a day, a project fills a day.
FullDayParams ==
    {[days |-> d, periods_per_day |-> PERIODS_PER_DAY_CP,
      base_slot_minutes |-> BASE_SLOT_MINUTES] : d \in 1..MaxDays}

\* Days twice as long: two projects fit in one day.
LongDayParams ==
    {[days |-> d, periods_per_day |-> 2 * PERIODS_PER_DAY_CP,
      base_slot_minutes |-> BASE_SLOT_MINUTES] : d \in 1..MaxDays}

\* The (data, params) pairs build_and_solve is run on.
CPInputs ==
    ((CPCatalogs \cup {FullYearCatalog, IgnoreCapacityCatalog, PreCheckCatalog,
                        UnsortedCatalog, CPDanglingCatalog}) \X ParamSets)
        \cup ({ProjectTutCatalog, LongProjectCatalog} \X FullDayParams)
        \cup ({TwoProjectsCatalog, LongProjectCatalog} \X LongDayParams)

InitCP ==
    /\ \E input \in CPInputs : data = input[1] /\ params = input[2]
    /\ strategy = "cp"
    /\ instances = << >>
    /\ solution = << >>
    /\ result = "input"
    /\ timetable = << >>
    /\ instructor_busy = {}
    /\ room_busy = {}
    /\ scheduled_sessions = [sid \in SectionIds |-> {}]
    /\ scheduled_courses = [sid \in SectionIds |-> {}]
    /\ attempts = 0
    /\ backtracks = 0
    /\ stack = << >>
    /\ log = << >>
    /\ first_run = << >>
    /\ expired = FALSE
    /\ solver = NoSolver
    /\ phase = None

NextCP ==
    \/ main_generate_instances
    \/ build_and_solve_input_error
    \/ build_and_solve_solution
    \/ build_and_solve_infeasible
    \/ build_and_solve_unknown

SpecCP == InitCP /\ [][NextCP]_vars

\* Both schedulers of scheduler.py and the constraint model.
InitAll == Init \/ InitCP

NextAll == Next \/ NextCP

SpecAll == InitAll /\ [][NextAll]_vars

\* ---------------------------------------------------------------- properties: BacktrackingScheduler
\* The assignments the search holds placed: one per frame that placed and has not removed.
StackAssignments == {i \in 1..Len(stack) : stack[i].assignment # NoAssignment}

TimetableAssignments == {timetable[c] : c \in DOMAIN timetable}

Periods(a) == a.period..(a.period + a.duration - 1)

SameCell(a, b) == a.day = b.day /\ Periods(a) \cap Periods(b) # {}

ShareSection(a, b) == Range(a.sections) \cap Range(b.sections) # {}

Backtracking == strategy \in {"section", "course"}

\* C1: during the search and in a returned schedule, no two placed assignments whose
\* section lists share a section id occupy a common (day, period) cell: every
\* (section, day, period) cell of a placed assignment is held by that assignment alone.
C1_NoStudentDoubleBooking ==
    Backtracking =>
        /\ \A i, j \in StackAssignments :
              i # j /\ ShareSection(stack[i].assignment, stack[j].assignment)
                  => ~SameCell(stack[i].assignment, stack[j].assignment)
        /\ \A i \in StackAssignments :
              \A c \in Cells(stack[i].assignment.sections, stack[i].assignment.day,
                             stack[i].assignment.period, stack[i].assignment.duration) :
                  c \in DOMAIN timetable /\ timetable[c] = stack[i].assignment
        /\ \A a \in TimetableAssignments :
              \A c \in Cells(a.sections, a.day, a.period, a.duration) :
                  c \in DOMAIN timetable /\ timetable[c] = a

\* Two sessions of one section on the same day, in a returned schedule and during a search.
C1_Witness ==
    /\ Backtracking
    /\ result = "success"
    /\ \E a, b \in TimetableAssignments : a # b /\ ShareSection(a, b) /\ a.day = b.day

\* C2: during the search and in a returned schedule, no two placed assignments with the
\* same instructor, and no two with the same room other than "N/A", occupy a common
\* (day, period) cell.
C2_NoInstructorRoomDoubleBooking ==
    Backtracking =>
        /\ \A i, j \in StackAssignments :
              LET a == stack[i].assignment
                  b == stack[j].assignment
              IN  i # j /\ SameCell(a, b) =>
                      /\ a.instructor_id # b.instructor_id
                      /\ a.room_id = "N/A" \/ a.room_id # b.room_id
        /\ \A a, b \in TimetableAssignments :
              a # b /\ SameCell(a, b) =>
                  /\ a.instructor_id # b.instructor_id
                  /\ a.room_id = "N/A" \/ a.room_id # b.room_id

\* A returned schedule in which one instructor and one room each serve two sessions of a day.
C2_Witness ==
    /\ Backtracking
    /\ result = "success"
    /\ \E a, b \in TimetableAssignments :
          a # b /\ a.day = b.day /\ a.instructor_id = b.instructor_id
    /\ \E a, b \in TimetableAssignments :
          a # b /\ a.day = b.day /\ a.room_id = b.room_id /\ a.room_id # "N/A"

\* C5: in a returned schedule, every assignment of 2 or more periods starts at an even period.
C5_AlignedStarts ==
    Backtracking /\ result = "success" =>
        \A a \in TimetableAssignments : a.duration >= 2 => a.period % 2 = 0

\* C8: when solve_by_course succeeds, every generated (course, kind, cohort) with a
\* non-empty cohort has exactly one placed assignment.
AssignmentsOf(course, kind, cohort) ==
    {a \in TimetableAssignments :
        /\ a.course_id = course.course_id
        /\ a.session_type = kind.type
        /\ a.duration = kind.length \div 45
        /\ a.sections = cohort}

C8_CourseCompleteness ==
    strategy = "course" /\ result = "success" =>
        \A i \in 1..Len(_get_all_sessions_to_schedule) :
            LET s == _get_all_sessions_to_schedule[i]
                course == data.courses[s.course]
            IN  s.sections # <<>> =>
                    Cardinality(AssignmentsOf(course, course.kinds[s.kind], s.sections)) = 1

\* C9: a returned schedule holds, for every course, Lecture kind and eligible group,
\* sessions_per_week distinct Lecture assignments (2 when the kind declares none).
declared_sessions_per_week(kind) ==
    IF kind.sessions_per_week # 0 THEN kind.sessions_per_week ELSE 2

C9_LectureRepetitions ==
    Backtracking /\ result = "success" =>
        \A course \in Range(data.courses) : \A kind \in Range(course.kinds) :
            \A g \in Range(data.groups) :
                kind.type = "Lecture" /\ Eligible(g, course)
                        /\ ~course.is_project /\ ~course.full_year =>
                    Cardinality({a \in TimetableAssignments :
                                    /\ a.course_id = course.course_id
                                    /\ a.session_type = "Lecture"
                                    /\ a.sections = IdsOf(sections_by_group(g.group_id))})
                        = declared_sessions_per_week(kind)

\* C10: in the test script's scheduler, a successful solve of a catalog with a course
\* that has a Lecture kind and a Tut kind returns a Tut assignment for every section
\* of every eligible group.
C10_TestTutNotSkipped ==
    strategy = "test" /\ result = "success" =>
        \A course \in Range(data.courses) :
            /\ ~course.is_project /\ ~course.full_year
            /\ \E k \in Range(course.kinds) : k.type = "Lecture"
            /\ \E k \in Range(course.kinds) : k.type = "Tut"
            => \A s \in Range(data.sections) :
                   Eligible(group_by_id(s.group_id), course) =>
                       \E a \in TimetableAssignments :
                           /\ a.course_id = course.course_id
                           /\ a.session_type = "Tut"
                           /\ a.sections = << s.section_id >>

\* ---------------------------------------------------------------- properties: build_and_solve
Solved == strategy = "cp" /\ result = "OPTIMAL"

Interval(i) ==
    solution[i].start..(solution[i].start + needed_of(occurrences[i].instance) - 1)

\* The sections that attend an instance: the group's sections for a Lecture or a
\* Project, the one section for a Tut or a Lab.
Cohort(inst) ==
    IF inst.type \in {"Lecture", "Project"}
    THEN {s.section_id : s \in {x \in Range(data.sections) : x.group_id = inst.group_id}}
    ELSE {inst.section_id}

C4_RoomInstructorExclusion ==
    Solved =>
        \A i, j \in 1..Len(solution) :
            i < j =>
                /\ solution[i].room = solution[j].room => Interval(i) \cap Interval(j) = {}
                /\ solution[i].instr # 0 /\ solution[i].instr = solution[j].instr
                      => Interval(i) \cap Interval(j) = {}

\* A solution in which two occurrences share a room and two share an instructor but
\* not the room, all on one day.
C4_Witness ==
    /\ Solved
    /\ \E i, j \in 1..Len(solution) :
          i < j /\ solution[i].room = solution[j].room /\ solution[i].day = solution[j].day
    /\ \E i, j \in 1..Len(solution) :
          /\ i < j /\ solution[i].instr # 0 /\ solution[i].instr = solution[j].instr
          /\ solution[i].room # solution[j].room /\ solution[i].day = solution[j].day

\* C6: the start domain of an occurrence of 2 or more sub-slots holds even indices
\* only, and so does every start of such an occurrence in a solution.
C6_EvenStartDomain ==
    /\ strategy = "cp" /\ result = "instances" /\ quick_feasibility_checks = << >> =>
          \A i \in 1..Len(occurrences) :
              needed_of(occurrences[i].instance) >= 2 =>
                  \A s \in valid_starts(occurrences[i].instance) : s % 2 = 0
    /\ Solved =>
          \A i \in 1..Len(solution) :
              needed_of(occurrences[i].instance) >= 2 => solution[i].start % 2 = 0

\* C7: every placed occurrence lies within one day: period + duration <= PERIODS_PER_DAY
\* for every assignment the backtracking scheduler holds placed, and for the constraint
\* model every start s of an occurrence of n sub-slots has
\* s div slots_per_day = (s + n - 1) div slots_per_day, the day value being s div slots_per_day.
C7_DayContainment ==
    /\ Backtracking =>
          /\ \A i \in StackAssignments :
                stack[i].assignment.period + stack[i].assignment.duration <= PERIODS_PER_DAY
          /\ \A a \in TimetableAssignments : a.period + a.duration <= PERIODS_PER_DAY
    /\ strategy = "cp" /\ result = "instances" /\ quick_feasibility_checks = << >> =>
          \A i \in 1..Len(occurrences) :
              \A s \in valid_starts(occurrences[i].instance) :
                  s \div slots_per_day
                      = (s + needed_of(occurrences[i].instance) - 1) \div slots_per_day
    /\ Solved =>
          \A i \in 1..Len(solution) :
              LET n == needed_of(occurrences[i].instance)
                  s == solution[i].start
              IN  /\ s \div slots_per_day = (s + n - 1) \div slots_per_day
                  /\ solution[i].day = s \div slots_per_day

\* A returned schedule with a session that ends with the last period of its day and
\* does not start the day.
C7_Witness ==
    /\ Backtracking
    /\ result = "success"
    /\ \E a \in TimetableAssignments :
          a.period > 0 /\ a.period + a.duration = PERIODS_PER_DAY


\* ---------------------------------------------------------------- cohorts of the backtracking scheduler
\* The sections of the groups eligible for a course, in the order of the section list.
EligibleSectionIds(course) ==
    IdsOf(SelectSeq(data.sections, LAMBDA s : Eligible(group_by_id(s.group_id), course)))

\* The Lab kinds of the courses that are neither full_year nor is_project and bundle at
\* least one section, as (course, kind) pairs.
PlainLabKinds ==
    {<<c, k>> \in UNION {{c} \X Range(c.kinds) : c \in Range(data.courses)} :
        /\ k.type = "Lab" /\ ~c.full_year /\ ~c.is_project
        /\ k.max_sections_together >= 1}

\* C11: with strategy 'section', a successful result holds, for every is_project course
\* and every group eligible for it, a placed session of the course whose cohort is the
\* sections of that group.
C11_SectionProjectsPlaced ==
    strategy = "section" /\ result = "success" =>
        \A c \in Range(data.courses), g \in Range(data.groups) :
            c.is_project /\ Eligible(g, c) /\ sections_by_group(g.group_id) # << >> =>
                \E a \in TimetableAssignments :
                    /\ a.course_id = c.course_id
                    /\ a.sections = IdsOf(sections_by_group(g.group_id))

\* C13: every cohort the backtracking scheduler places, under either strategy, holds
\* only sections whose group has the course's year and, when the course has a major,
\* that major as its specialization.
C13_CohortEligibility ==
    Backtracking =>
        \A a \in TimetableAssignments :
            \A sid \in Range(a.sections) :
                Eligible(group_by_id(section_by_id(sid).group_id), course_by_id(a.course_id))

\* C16: for a Lab kind of a plain course with max_sections_together >= 1, the bundles of
\* _get_target_sections partition the eligible sections: joined in order they give the
\* eligible section list, none is empty and none has more than max_sections_together
\* sections.
C16_LabBundlesPartition ==
    Backtracking =>
        \A ck \in PlainLabKinds :
            LET bundles == _get_target_sections(ck[1], ck[2], data.sections[1])
            IN  /\ Flatten(bundles) = EligibleSectionIds(ck[1])
                /\ \A i \in 1..Len(bundles) :
                      /\ bundles[i] # << >>
                      /\ Len(bundles[i]) <= ck[2].max_sections_together

\* A finished schedule with a Lab placed for a full bundle of two sections and a Lab
\* placed for the bundle of the one section left over.
C16_Witness ==
    /\ Backtracking
    /\ result = "success"
    /\ \E ck \in PlainLabKinds :
          /\ ck[2].max_sections_together = 2
          /\ \E a, b \in TimetableAssignments :
                /\ a.course_id = ck[1].course_id /\ b.course_id = ck[1].course_id
                /\ a.session_type = "Lab" /\ b.session_type = "Lab"
                /\ Len(a.sections) = 2 /\ Len(b.sections) = 1

\* C17: every Lab bundle of _get_target_sections for a plain course, and so every Lab
\* cohort of a finished schedule, holds sections of one group only.
C17_LabBundlesOneGroup ==
    Backtracking /\ result = "success" =>
        \A ck \in PlainLabKinds :
            LET bundles == _get_target_sections(ck[1], ck[2], data.sections[1])
            IN  \A i \in 1..Len(bundles) :
                    \A s1, s2 \in Range(bundles[i]) :
                        section_by_id(s1).group_id = section_by_id(s2).group_id


\* ---------------------------------------------------------------- instances of the constraint model
Generated == strategy = "cp" /\ result # "input"

Checked == strategy = "cp" /\ result \notin {"input", "instances"}

\* C12: every Project instance of generate_instances has a length of PERIODS_PER_DAY x 90
\* minutes, whatever length the kind declares.
C12_ProjectFullDayLength ==
    Generated =>
        \A i \in 1..Len(instances) :
            instances[i].type = "Project" =>
                instances[i].length_minutes = PERIODS_PER_DAY_CP * 90

\* C14: in a solved model a Project occurrence has no instructor, fills the sub-slots of
\* its day, and no other occurrence attended by a section of its group is on that day.
C14_ProjectOwnsItsDay ==
    Solved =>
        \A i \in 1..Len(solution) :
            occurrences[i].instance.type = "Project" =>
                /\ solution[i].instr = 0
                /\ needed_of(occurrences[i].instance) = slots_per_day
                /\ \A j \in 1..Len(solution) :
                      /\ j # i
                      /\ Cohort(occurrences[i].instance) \cap Cohort(occurrences[j].instance) # {}
                      => solution[j].day # solution[i].day

\* C15: in every assignment that satisfies the model, the Project occurrences of one
\* group have the same day.
C15_ProjectGrouping ==
    Solved =>
        \A i, j \in 1..Len(solution) :
            /\ occurrences[i].instance.type = "Project"
            /\ occurrences[j].instance.type = "Project"
            /\ occurrences[i].instance.group_id = occurrences[j].instance.group_id
            => solution[i].day = solution[j].day

\* A solution over a week of two days or more with two Project occurrences of one group.
C15_Witness ==
    /\ Solved
    /\ params.days >= 2
    /\ \E i, j \in 1..Len(solution) :
          /\ i < j
          /\ occurrences[i].instance.type = "Project"
          /\ occurrences[j].instance.type = "Project"
          /\ occurrences[i].instance.group_id = occurrences[j].instance.group_id
          /\ solution[i].day = 1

\* C18: for a Lecture or Lab kind of a full_year course, generate_instances yields one
\* instance, attended by every section of the course's year.
C18_FullYearSingleInstance ==
    Generated =>
        \A c \in Range(data.courses) :
            \A k \in Range(c.kinds) :
                c.full_year /\ ~c.is_project /\ k.type \in {"Lecture", "Lab"} =>
                    LET of_kind == {i \in 1..Len(instances) :
                                      /\ instances[i].course_id = c.course_id
                                      /\ instances[i].type = k.type}
                    IN  /\ Cardinality(of_kind) = 1
                        /\ \A i \in of_kind :
                              Cohort(instances[i]) = Range(IdsOf(sections_by_year(c.year)))

\* The Lecture instances whose kind sets ignore_capacity.
ignores_capacity(inst) ==
    /\ inst.type = "Lecture"
    /\ \E k \in Range(course_by_id(inst.course_id).kinds) :
          k.type = "Lecture" /\ k.ignore_capacity

\* C20: for a Lecture that ignores capacity, the pre-check accepts a room of an admissible
\* type whatever its capacity: with such a room in the catalog the instance has a room
\* and the run does not end in INPUT_ERROR on it.
C20_IgnoreCapacityAccepted ==
    Checked =>
        \A i \in 1..Len(instances) :
            /\ ignores_capacity(instances[i])
            /\ \E r \in Range(data.rooms) :
                  r.type \in valid_room_types_for_session(instances[i].type)
            => room_found(instances[i])


\* ---------------------------------------------------------------- rooms of a schedule
\* The students of a placed cohort, as solve_by_course and solve_by_section count them.
students_count(a) ==
    SumSeq([i \in 1..Len(a.sections) |-> section_by_id(a.sections[i]).students_count])

\* The room types a session may use: those of its type, and for a Lab its lab_type only.
admissible_room_types(session_type, lab_type) ==
    IF session_type = "Lab" THEN {lab_type} ELSE valid_room_types_for_session(session_type)

\* C19: in every successful schedule of either solver each real room has a type that is
\* admissible for the session type (for a Lab the kind's lab_type) and a capacity of at
\* least the expected students of the cohort, unless the kind sets ignore_capacity.
C19_DomainCompliance ==
    /\ Backtracking /\ result = "success" =>
          \A a \in TimetableAssignments :
              a.room_id # "N/A" =>
                  \E k \in Range(course_by_id(a.course_id).kinds) :
                      /\ k.type = a.session_type
                      /\ room_by_id(a.room_id).type
                            \in admissible_room_types(a.session_type, k.lab_type)
                      /\ k.ignore_capacity
                            \/ room_by_id(a.room_id).capacity >= students_count(a)
    /\ Solved =>
          \A i \in 1..Len(solution) :
              LET inst == occurrences[i].instance
                  room == data.rooms[solution[i].room]
              IN  /\ room.type \in admissible_room_types(inst.type, inst.lab_type)
                  /\ ignores_capacity(inst) \/ room.capacity >= inst.expected_students

\* A finished schedule in which one session sits in a room smaller than its cohort (its
\* kind ignores capacity) and another passed over a room of an admissible type that was
\* too small for it.
C19_Witness ==
    /\ Backtracking
    /\ result = "success"
    /\ \E a, b \in TimetableAssignments :
          /\ a.room_id # "N/A" /\ b.room_id # "N/A"
          /\ room_by_id(a.room_id).capacity < students_count(a)
          /\ room_by_id(b.room_id).capacity >= students_count(b)
          /\ \E r \in Range(data.rooms) :
                /\ r.type \in valid_room_types_for_session(b.session_type)
                /\ r.capacity < students_count(b)

\* ---------------------------------------------------------------- instructors of a schedule
\* C21: in every successful schedule of either solver the instructor of a Lecture is a
\* Professor and the instructor of a Tut or a Lab is a TA, and each lists the session's
\* course among the courses they are qualified for.
C21_InstructorCompliance ==
    /\ Backtracking /\ result = "success" =>
          \A a \in TimetableAssignments :
              LET instr == instructor_by_id(a.instructor_id)
              IN  /\ a.instructor_id \in {x.instr_id : x \in Range(data.instructors)}
                  /\ a.course_id \in instr.qualified_courses
                  /\ a.session_type = "Lecture" => instr.role = "Professor"
                  /\ a.session_type \in {"Tut", "Lab"} => instr.role = "TA"
    /\ Solved =>
          \A i \in 1..Len(solution) :
              LET inst == occurrences[i].instance
              IN  /\ inst.type \in {"Lecture", "Tut", "Lab"} => solution[i].instr # 0
                  /\ solution[i].instr # 0 =>
                        LET instr == data.instructors[solution[i].instr]
                        IN  /\ inst.course_id \in instr.qualified_courses
                            /\ inst.type = "Lecture" => instr.role = "Professor"
                            /\ inst.type \in {"Tut", "Lab"} => instr.role = "TA"

\* A finished schedule with a Lecture and a Tut of one course, for which a Professor and
\* a TA are both qualified and another instructor of the catalog is not.
C21_Witness ==
    /\ Backtracking
    /\ result = "success"
    /\ \E a, b \in TimetableAssignments :
          /\ a.course_id = b.course_id
          /\ a.session_type = "Lecture" /\ b.session_type = "Tut"
          /\ instructor_by_id(a.instructor_id).role = "Professor"
          /\ instructor_by_id(b.instructor_id).role = "TA"
          /\ \E x \in Range(data.instructors) : a.course_id \notin x.qualified_courses

\* ---------------------------------------------------------------- failure reports
\* The sessions of the catalog for which solve_by_course finds no qualified instructor
\* or no suitable room.
empty_domain_sessions ==
    {i \in 1..Len(_get_all_sessions_to_schedule) :
        LET s == _get_all_sessions_to_schedule[i]
            lf == LoopFrame(i - 1, s.course, s.kind, s.sections)
        IN  lf.qualified_instructors = <<>> \/ lf.suitable_rooms = <<>>}

\* C22: when some session of the catalog has no qualified instructor or no suitable
\* room, the scheduler reports it before the search begins: no candidate is ever tried
\* (attempts stays 0), no assignment is ever placed or removed, and no schedule is
\* returned.
C22_EmptyDomainBeforeSearch ==
    Backtracking /\ empty_domain_sessions # {} =>
        /\ attempts = 0
        /\ backtracks = 0
        /\ timetable = << >>
        /\ result # "success"

\* C24: when solve fails, with either strategy, nothing is left placed: timetable,
\* instructor_busy and room_busy are empty on return, so the returned record has no
\* schedule entry to carry.
C24_FailureLeavesNothing ==
    Backtracking /\ result = "failed" =>
        /\ timetable = << >>
        /\ instructor_busy = {}
        /\ room_busy = {}

\* A failed solve that placed assignments and removed them again.
C24_Witness ==
    /\ Backtracking
    /\ result = "failed"
    /\ backtracks > 0
    /\ attempts > backtracks

\* ---------------------------------------------------------------- pre-check reports
\* The error entries that name an instance.
entries_naming(inst) ==
    {k \in 1..Len(quick_feasibility_checks) :
        quick_feasibility_checks[k][1] = inst.instance_id}

\* C23: after quick_feasibility_checks has run, every instance whose room domain is
\* empty and every non-Project instance whose instructor domain is empty is named by an
\* error entry, and when the list of entries is not empty build_and_solve returns
\* INPUT_ERROR with no assignment computed.
C23_PreCheckNamesEveryEmptyDomain ==
    Checked =>
        /\ \A i \in 1..Len(instances) :
              \/ room_domain(instances[i]) = {}
              \/ instances[i].type # "Project" /\ instr_candidates(instances[i]) = {}
              => entries_naming(instances[i]) # {}
        /\ quick_feasibility_checks # << >> => result = "INPUT_ERROR" /\ solution = << >>

\* An INPUT_ERROR for a catalog with a Lab instance that lacks lab_type and has neither
\* room nor instructor (one entry), and a Tut instance with neither room nor
\* instructor (two entries).
C23_Witness ==
    /\ strategy = "cp"
    /\ result = "INPUT_ERROR"
    /\ \E i, j \in 1..Len(instances) :
          /\ instances[i].type = "Lab" /\ instances[i].lab_type = None
          /\ room_domain(instances[i]) = {} /\ instr_candidates(instances[i]) = {}
          /\ Cardinality(entries_naming(instances[i])) = 1
          /\ instances[j].type = "Tut"
          /\ room_domain(instances[j]) = {} /\ instr_candidates(instances[j]) = {}
          /\ Cardinality(entries_naming(instances[j])) = 2

\* ---------------------------------------------------------------- order of the instances
\* The ids of the inputs in ascending (string) order.
SortedCourseIds ==
    << "K1", "K2", "K3", "K4", "KA", "KB", "KF", "KI", "KL", "KP", "KQ", "KT", "KU", "KX" >>

SortedKindTypes == << "Lab", "Lecture", "Project", "Tut" >>

SortedCohortIds == << "G1", "G1-S1", "G1-S2", "G4", "G4-S1", "GX", "GX-S1" >>

Rank(x, sorted) == CHOOSE i \in 1..Len(sorted) : sorted[i] = x

\* (course year, course id, kind type, cohort id) of an instance.
SortKey(inst) ==
    << course_by_id(inst.course_id).year,
       Rank(inst.course_id, SortedCourseIds),
       Rank(inst.type, SortedKindTypes),
       Rank(IF inst.group_id # None THEN inst.group_id ELSE inst.section_id,
            SortedCohortIds) >>

LexLeq(a, b) ==
    \/ a = b
    \/ \E k \in 1..Len(a) : a[k] < b[k] /\ \A h \in 1..(k - 1) : a[h] = b[h]

\* C28: the list generate_instances returns is sorted by (course year, course id, kind
\* type, cohort id), and the occurrences follow the instances in that order, the
\* repetitions of one instance in ascending index.
C28_InstancesSorted ==
    Generated =>
        /\ \A i, j \in 1..Len(instances) :
              i < j => LexLeq(SortKey(instances[i]), SortKey(instances[j]))
        /\ occurrences =
              Flatten([i \in 1..Len(instances) |->
                  [r \in 1..instances[i].sessions_per_week |->
                      [instance |-> instances[i], occ |-> r - 1]]])

\* ---------------------------------------------------------------- input validation
has_dangling_section ==
    \E s \in Range(data.sections) :
        s.group_id \notin {g.group_id : g \in Range(data.groups)}

\* C29: a catalog in which a section names a group id that is not among the groups is
\* rejected: schedule_timetable, with either strategy, ends with an error and never
\* with a schedule or a plain failure, and build_and_solve on the generated instances
\* returns INPUT_ERROR.
C29_DanglingGroupRejected ==
    has_dangling_section =>
        /\ Backtracking => result \in {"running", "error"}
        /\ Checked => result = "INPUT_ERROR"

\* C30: a kind whose length is not a multiple of 45 minutes is a fatal input error for
\* the backtracking scheduler: no session of that kind is ever placed and the run ends
\* with an error; every placed session of another kind occupies length / 45 periods.
C30_LengthValidation ==
    Backtracking =>
        /\ \A course \in Range(data.courses) : \A kind \in Range(course.kinds) :
              kind.length % 45 # 0 =>
                  /\ result \in {"running", "error"}
                  /\ \A a \in TimetableAssignments :
                        ~(a.course_id = course.course_id /\ a.session_type = kind.type)
        /\ \A a \in TimetableAssignments :
              \E kind \in Range(course_by_id(a.course_id).kinds) :
                  /\ kind.type = a.session_type
                  /\ kind.length % 45 = 0 => a.duration * 45 = kind.length

\* ---------------------------------------------------------------- time limit and determinism
\* C26: once max_time_seconds have passed since solve started, the search tries no
\* further candidate and places nothing: its next step is the return of a Timeout outcome.
C26_DeadlineEnforced ==
    [][expired =>
          /\ attempts' = attempts
          /\ timetable' = timetable
          /\ result' = "timeout"]_vars

SLOTS_MAX == 40

\* list(range(10, 30))
PREFERRED_SLOTS == [i \in 1..20 |-> i + 9]

UNDESIRABLE_SLOTS == << 0, 1, 2, 3, 4, 5, 36, 37, 38, 39 >>

CourseComponent(component_id, type, lab_type, duration_slots, min_capacity, qualification, groups, sections) ==
    [component_id |-> component_id, type |-> type, lab_type |-> lab_type,
     duration_slots |-> duration_slots, min_capacity |-> min_capacity,
     instructor_qualification |-> qualification,
     student_groups |-> groups, student_sections |-> sections]

TSCourse(course_id, components) == [course_id |-> course_id, components |-> components]

TSInstructor(instructor_id, type, qualifications) ==
    [instructor_id |-> instructor_id, type |-> type, qualifications |-> qualifications]

TSRoom(room_id, type, lab_type, capacity) ==
    [room_id |-> room_id, type |-> type, lab_type |-> lab_type, capacity |-> capacity]

StudentGroup(group_id, sections) == [group_id |-> group_id, sections |-> sections]

TSSection(section_id, group_id, student_count, assigned_courses) ==
    [section_id |-> section_id, group_id |-> group_id, student_count |-> student_count,
     assigned_courses |-> assigned_courses]

TimetableSlot(course_id, component_id, type, room_id, instructor_id, duration, is_continuation, student_count) ==
    [course_id |-> course_id, component_id |-> component_id, type |-> type,
     room_id |-> room_id, instructor_id |-> instructor_id, duration |-> duration,
     is_continuation |-> is_continuation, student_count |-> student_count]

\* Sections are named by their position in the sections list, from 1.
section_index_map(section_id) ==
    CHOOSE i \in 1..Len(data.sections) : data.sections[i].section_id = section_id

known_section(section_id) == \E s \in Range(data.sections) : s.section_id = section_id

group_sections_map(group_id) ==
    (CHOOSE g \in Range(data.groups) : g.group_id = group_id).sections

\* list.sort: ascending by key, elements with equal keys in their former order.
sorted_by(seq, keys) ==
    LET n == Len(seq)
        rank(i) == Cardinality({j \in 1..n :
                        keys[j] < keys[i] \/ (keys[j] = keys[i] /\ j < i)}) + 1
    IN  [r \in 1..n |-> seq[CHOOSE i \in 1..n : rank(i) = r]]

\* The (course, component) positions in the order of the nested loops.
all_components ==
    Flatten([ci \in 1..Len(data.courses) |->
        [ki \in 1..Len(data.courses[ci].components) |-> <<ci, ki>>]])

component_at(p) == data.courses[p[1]].components[p[2]]

\* _parse_input_data and _initialize_timetable.
TS_initialize_timetable ==
    [timetable |-> << >>,
     instructor_busy |-> {},
     room_busy |-> {},
     section_busy |-> {},
     scheduled_components |-> [idx \in 1..Len(data.sections) |-> {}],
     is_scheduled |-> {},
     scheduled_hours |-> [id \in {i.instructor_id : i \in Range(data.instructors)} |-> 0]]

\* ---------------------------------------------------------------- time_scheduler.py: helpers
TS_get_target_sections(st, course, component) ==
    IF component.type = "lecture"
    THEN {section_index_map(sid) :
            sid \in {x \in UNION {Range(group_sections_map(gid)) :
                            gid \in {y \in Range(component.student_groups) :
                                        \E g \in Range(data.groups) : g.group_id = y}} :
                        /\ known_section(x)
                        /\ component.component_id
                              \notin st.scheduled_components[section_index_map(x)]
                        /\ course.course_id
                              \in data.sections[section_index_map(x)].assigned_courses}}
    ELSE {section_index_map(sid) :
            sid \in {x \in Range(component.student_sections) :
                        /\ known_section(x)
                        /\ component.component_id
                              \notin st.scheduled_components[section_index_map(x)]}}

TS_get_qualified_instructors(st, qualification, component_type) ==
    LET q == SelectSeq(data.instructors, LAMBDA instr :
                /\ qualification \in instr.qualifications
                /\ IF component_type = "lecture"
                   THEN instr.type = "professor"
                   ELSE instr.type \in {"ta", "part_time"})
        ids == [i \in 1..Len(q) |-> q[i].instructor_id]
    IN  sorted_by(ids, [i \in 1..Len(ids) |-> st.scheduled_hours[ids[i]]])

TS_get_suitable_rooms(room_type, lab_type, min_capacity) ==
    LET ok == SelectSeq(data.rooms, LAMBDA room :
                /\ room.type = room_type
                /\ room.capacity >= min_capacity
                /\ room_type = "lab" /\ lab_type # "" => room.lab_type = lab_type)
    IN  sorted_by([i \in 1..Len(ok) |-> ok[i].room_id],
                  [i \in 1..Len(ok) |-> ok[i].capacity])

TS_is_valid_assignment(st, target_sections, slot, duration, instructor_id, room_id) ==
    /\ slot >= 0 /\ slot < SLOTS_MAX
    /\ slot + duration <= SLOTS_MAX
    /\ \A s \in slot..(slot + duration - 1) :
          /\ <<s, instructor_id>> \notin st.instructor_busy
          /\ <<s, room_id>> \notin st.room_busy
          /\ \A idx \in target_sections : <<s, idx>> \notin st.section_busy

\* The cells an assignment of a section writes: the slot itself, then its continuations.
TS_cells(idx, slot, duration) ==
    {<<slot, idx>>} \cup {<<slot + offset, idx>> : offset \in 1..(duration - 1)}

TS_place_assignment(st, target_sections, course_id, component_id, component_type, duration, instructor_id, room_id, slot) ==
    LET cells == UNION {TS_cells(idx, slot, duration) : idx \in target_sections}
        span == slot..(slot + duration - 1)
        marked == {p \in Range(all_components) :
                      /\ component_at(p).component_id = component_id
                      /\ \A k \in 1..(p[2] - 1) :
                            data.courses[p[1]].components[k].component_id # component_id}
    IN  [timetable |->
            [c \in DOMAIN st.timetable \cup cells |->
                IF c \in cells
                THEN TimetableSlot(course_id, component_id, component_type, room_id,
                                   instructor_id, duration, c[1] # slot,
                                   data.sections[c[2]].student_count)
                ELSE st.timetable[c]],
         instructor_busy |-> st.instructor_busy \cup {<<s, instructor_id>> : s \in span},
         room_busy |-> st.room_busy \cup {<<s, room_id>> : s \in span},
         section_busy |-> st.section_busy \cup (span \X target_sections),
         scheduled_components |->
            [idx \in DOMAIN st.scheduled_components |->
                IF idx \in target_sections
                THEN st.scheduled_components[idx] \cup {component_id}
                ELSE st.scheduled_components[idx]],
         is_scheduled |-> st.is_scheduled \cup marked,
         scheduled_hours |->
            [id \in DOMAIN st.scheduled_hours |->
                IF id = instructor_id THEN st.scheduled_hours[id] + duration
                ELSE st.scheduled_hours[id]]]

\* The nested loops slot x instructor x room, numbered from 0 in the order they run.
TS_candidate(c, slots, instructors, rooms) ==
    [slot |-> slots[(c \div (Len(instructors) * Len(rooms))) + 1],
     instructor_id |-> instructors[((c \div Len(rooms)) % Len(instructors)) + 1],
     room_id |-> rooms[(c % Len(rooms)) + 1]]

TS_valid_candidates(st, target_sections, duration, slots, instructors, rooms) ==
    {c \in 0..(Len(slots) * Len(instructors) * Len(rooms) - 1) :
        LET k == TS_candidate(c, slots, instructors, rooms)
        IN  TS_is_valid_assignment(st, target_sections, k.slot, duration,
                                   k.instructor_id, k.room_id)}

\* "Try to schedule": place the first valid candidate of the loops, if there is one.
try_to_schedule(st, target_sections, course, component, slots, instructors, rooms) ==
    LET valid == TS_valid_candidates(st, target_sections, component.duration_slots,
                                     slots, instructors, rooms)
        k == TS_candidate(FirstOf(valid), slots, instructors, rooms)
    IN  IF valid = {}
        THEN st
        ELSE TS_place_assignment(st, target_sections, course.course_id,
                                 component.component_id, component.type,
                                 component.duration_slots, k.instructor_id, k.room_id,
                                 k.slot)

\* ---------------------------------------------------------------- time_scheduler.py: phases
\* The lectures collected at the start of phase 1, largest min_capacity first.
lectures ==
    LET l == SelectSeq(all_components, LAMBDA p : component_at(p).type = "lecture")
    IN  sorted_by(l, [i \in 1..Len(l) |-> 0 - component_at(l[i]).min_capacity])

\* The body of the loop of _schedule_lectures for one lecture.
schedule_lecture(st, p) ==
    LET course == data.courses[p[1]]
        component == component_at(p)
        target_sections == TS_get_target_sections(st, course, component)
        qualified_instructors ==
            TS_get_qualified_instructors(st, component.instructor_qualification, "lecture")
        suitable_rooms == TS_get_suitable_rooms("lecture", "", component.min_capacity)
    IN  IF target_sections = {} \/ qualified_instructors = << >> \/ suitable_rooms = << >>
        THEN st
        ELSE try_to_schedule(st, target_sections, course, component, PREFERRED_SLOTS,
                             qualified_instructors, suitable_rooms)

\* The loop over student_sections of _schedule_labs and _schedule_tutorials, from the
\* i-th section on; n counts the sections scheduled so far.
RECURSIVE schedule_sections(_, _, _, _)
schedule_sections(st, p, i, n) ==
    LET course == data.courses[p[1]]
        component == component_at(p)
    IN  IF i > Len(component.student_sections)
        THEN IF n > 0 THEN [st EXCEPT !.is_scheduled = @ \cup {p}] ELSE st
        ELSE LET section_id == component.student_sections[i]
                 section_idx == section_index_map(section_id)
                 qualified_instructors ==
                     TS_get_qualified_instructors(st, component.instructor_qualification,
                                                  component.type)
                 suitable_rooms ==
                     IF component.type = "lab"
                     THEN TS_get_suitable_rooms("lab", component.lab_type,
                                                component.min_capacity)
                     ELSE TS_get_suitable_rooms("classroom", "", component.min_capacity)
                 placed == try_to_schedule(st, {section_idx}, course, component,
                                           [s \in 1..SLOTS_MAX |-> s - 1],
                                           qualified_instructors, suitable_rooms)
             IN  IF ~known_section(section_id)
                 THEN schedule_sections(st, p, i + 1, n)
                 ELSE IF component.component_id \in st.scheduled_components[section_idx]
                 THEN schedule_sections(st, p, i + 1, n)
                 ELSE IF qualified_instructors = << >> \/ suitable_rooms = << >>
                 THEN schedule_sections(st, p, i + 1, n)
                 ELSE IF placed = st
                 THEN schedule_sections(st, p, i + 1, n)
                 ELSE schedule_sections(placed, p, i + 1, n + 1)

\* The body of the loops of _schedule_labs (type "lab") and _schedule_tutorials
\* (type "tutorial") for one component.
schedule_component(st, p, type) ==
    IF component_at(p).type = type /\ p \notin st.is_scheduled
    THEN schedule_sections(st, p, 1, 0)
    ELSE st

\* _can_move_assignment without its check of the room's availability.
TS_can_move_assignment_no_room_check(st, section_idx, new_slot, assignment) ==
    /\ new_slot + assignment.duration <= SLOTS_MAX
    /\ \A s \in new_slot..(new_slot + assignment.duration - 1) :
          /\ <<s, assignment.instructor_id>> \notin st.instructor_busy
          /\ <<s, section_idx>> \notin st.section_busy

TS_can_move_assignment(st, section_idx, new_slot, assignment) ==
    /\ new_slot + assignment.duration <= SLOTS_MAX
    /\ \A s \in new_slot..(new_slot + assignment.duration - 1) :
          /\ <<s, assignment.instructor_id>> \notin st.instructor_busy
          /\ <<s, assignment.room_id>> \notin st.room_busy
          /\ <<s, section_idx>> \notin st.section_busy

TS_move_assignment(st, section_idx, old_slot, new_slot, assignment) ==
    LET old == {s \in old_slot..(old_slot + assignment.duration - 1) : s < SLOTS_MAX}
        new == {s \in new_slot..(new_slot + assignment.duration - 1) : s < SLOTS_MAX}
        kept == DOMAIN st.timetable \ (old \X {section_idx})
    IN  [st EXCEPT
            !.timetable =
                [c \in kept \cup (new \X {section_idx}) |->
                    IF c \in new \X {section_idx}
                    THEN [assignment EXCEPT !.is_continuation = (c[1] > new_slot)]
                    ELSE st.timetable[c]],
            !.instructor_busy =
                (@ \ {<<s, assignment.instructor_id>> : s \in old})
                    \cup {<<s, assignment.instructor_id>> : s \in new},
            !.room_busy =
                (@ \ {<<s, assignment.room_id>> : s \in old})
                    \cup {<<s, assignment.room_id>> : s \in new},
            !.section_busy = (@ \ (old \X {section_idx})) \cup (new \X {section_idx})]

\* The body of the loops of _optimize_schedule for the k-th (slot, section) pair: the
\* assignment that starts there moves to the first preferred slot it can move to.
TS_optimize_schedule(st, k) ==
    LET n == Len(data.sections)
        slot == UNDESIRABLE_SLOTS[((k - 1) \div n) + 1]
        section_idx == ((k - 1) % n) + 1
        assignment == st.timetable[<<slot, section_idx>>]
        targets == {i \in 1..Len(PREFERRED_SLOTS) :
                      TS_can_move_assignment(st, section_idx, PREFERRED_SLOTS[i],
                                             assignment)}
    IN  IF <<slot, section_idx>> \notin DOMAIN st.timetable
        THEN st
        ELSE IF assignment.is_continuation \/ assignment.course_id = ""
        THEN st
        ELSE IF targets = {}
        THEN st
        ELSE TS_move_assignment(st, section_idx, slot,
                                PREFERRED_SLOTS[FirstOf(targets)], assignment)

\* ---------------------------------------------------------------- time_scheduler.py: generate_timetable
Phase(name, k) == [name |-> name, k |-> k]

RunningTS(name) ==
    /\ strategy = "greedy"
    /\ result = "running"
    /\ phase.name = name
    /\ UNCHANGED <<data, strategy, params, instances, solution, first_run, expired>>
    /\ UNCHANGED search_vars

\* _validate_input, _parse_input_data and _check_solvability, which adds warnings only.
generate_timetable_begin ==
    /\ RunningTS("start")
    /\ IF data.courses = << >> \/ data.instructors = << >> \/ data.rooms = << >>
             \/ data.sections = << >>
       THEN /\ result' = "no success"
            /\ phase' = Phase("done", 0)
            /\ UNCHANGED solver
       ELSE /\ solver' = TS_initialize_timetable
            /\ phase' = Phase("lectures", 1)
            /\ UNCHANGED result

TS_schedule_lectures ==
    /\ RunningTS("lectures")
    /\ UNCHANGED result
    /\ IF phase.k > Len(lectures)
       THEN phase' = Phase("labs", 1) /\ UNCHANGED solver
       ELSE /\ solver' = schedule_lecture(solver, lectures[phase.k])
            /\ phase' = Phase("lectures", phase.k + 1)

TS_schedule_labs ==
    /\ RunningTS("labs")
    /\ UNCHANGED result
    /\ IF phase.k > Len(all_components)
       THEN phase' = Phase("tutorials", 1) /\ UNCHANGED solver
       ELSE /\ solver' = schedule_component(solver, all_components[phase.k], "lab")
            /\ phase' = Phase("labs", phase.k + 1)

TS_schedule_tutorials ==
    /\ RunningTS("tutorials")
    /\ UNCHANGED result
    /\ IF phase.k > Len(all_components)
       THEN phase' = Phase("optimize", 1) /\ UNCHANGED solver
       ELSE /\ solver' = schedule_component(solver, all_components[phase.k], "tutorial")
            /\ phase' = Phase("tutorials", phase.k + 1)

TS_optimize ==
    /\ RunningTS("optimize")
    /\ UNCHANGED result
    /\ IF phase.k > Len(UNDESIRABLE_SLOTS) * Len(data.sections)
       THEN phase' = Phase("statistics", 0) /\ UNCHANGED solver
       ELSE /\ solver' = TS_optimize_schedule(solver, phase.k)
            /\ phase' = Phase("optimize", phase.k + 1)

\* The statistics are put into the message and success is set.
generate_timetable_return ==
    /\ RunningTS("statistics")
    /\ result' = "success"
    /\ phase' = Phase("done", 0)
    /\ UNCHANGED solver

\* ---------------------------------------------------------------- time_scheduler.py: inputs
TSRooms ==
    << TSRoom("LR", "lecture", "", 100), TSRoom("LB", "lab", "computer", 30),
       TSRoom("CR", "classroom", "", 30) >>

TSInstructors ==
    << TSInstructor("P1", "professor", {"q1", "q2"}), TSInstructor("T1", "ta", {"q1"}),
       TSInstructor("T2", "part_time", {"q1"}) >>

TSGroups == << StudentGroup("G1", << "S1", "S2" >>) >>

TSSections ==
    << TSSection("S1", "G1", 25, {"M1", "M2", "M3", "M4", "M5"}),
       TSSection("S2", "G1", 25, {"M1", "M2", "M3", "M5"}) >>

\* M3 needs a qualification that no professor has, M4 a lab type that no room has;
\* the lecture of M5 takes three slots.
TSPool ==
    << TSCourse("M1",
           << CourseComponent("M1-LEC", "lecture", "", 2, 50, "q1", << "G1" >>, << >>),
              CourseComponent("M1-TUT", "tutorial", "", 1, 25, "q1", << >>,
                              << "S1", "S2" >>) >>),
       TSCourse("M2",
           << CourseComponent("M2-LEC", "lecture", "", 2, 40, "q2", << "G1" >>, << >>),
              CourseComponent("M2-LAB", "lab", "computer", 2, 25, "q1", << >>,
                              << "S1", "S2" >>) >>),
       TSCourse("M3",
           << CourseComponent("M3-LEC", "lecture", "", 2, 60, "q9", << "G1" >>, << >>) >>),
       TSCourse("M4",
           << CourseComponent("M4-LAB", "lab", "physics", 2, 25, "q1", << >>,
                              << "S1" >>) >>),
       TSCourse("M5",
           << CourseComponent("M5-LEC", "lecture", "", 3, 30, "q1", << "G1" >>, << >>),
              CourseComponent("M5-LAB", "lab", "computer", 2, 25, "q1", << >>,
                              << "S1", "S2" >>) >>) >>

\* Every list of up to MaxCourses distinct courses of the pool, in every order.
TSCatalogs ==
    LET picks == {s \in UNION {[1..n -> 1..Len(TSPool)] : n \in 0..MaxCourses} :
                    \A i, j \in DOMAIN s : i # j => s[i] # s[j]}
    IN  {Catalog(TSRooms, TSInstructors, TSGroups, TSSections,
                 [i \in DOMAIN s |-> TSPool[s[i]]]) : s \in picks}

InitTS ==
    /\ data \in TSCatalogs
    /\ strategy = "greedy"
    /\ result = "running"
    /\ phase = Phase("start", 0)
    /\ solver = NoSolver
    /\ timetable = << >>
    /\ instructor_busy = {}
    /\ room_busy = {}
    /\ scheduled_sessions = [sid \in SectionIds |-> {}]
    /\ scheduled_courses = [sid \in SectionIds |-> {}]
    /\ attempts = 0
    /\ backtracks = 0
    /\ stack = << >>
    /\ log = << >>
    /\ first_run = << >>
    /\ expired = FALSE
    /\ params = NoParams
    /\ instances = << >>
    /\ solution = << >>

NextTS ==
    \/ generate_timetable_begin
    \/ TS_schedule_lectures
    \/ TS_schedule_labs
    \/ TS_schedule_tutorials
    \/ TS_optimize
    \/ generate_timetable_return

SpecTS == InitTS /\ [][NextTS]_vars

\* ---------------------------------------------------------------- properties: TimetableSolver
\* The sections a component is meant for: for a lecture the known sections of its
\* groups that take the course, otherwise its known student_sections.
wanted_sections(course, component) ==
    TS_get_target_sections(TS_initialize_timetable, course, component)

\* C25: generate_timetable reports success only when every component of every course
\* has been placed for each of the sections it is meant for.
C25_SuccessMeansComplete ==
    strategy = "greedy" /\ result = "success" =>
        \A p \in Range(all_components) :
            \A idx \in wanted_sections(data.courses[p[1]], component_at(p)) :
                /\ component_at(p).component_id \in solver.scheduled_components[idx]
                /\ \E c \in DOMAIN solver.timetable :
                      /\ c[2] = idx
                      /\ solver.timetable[c].component_id = component_at(p).component_id

\* ---------------------------------------------------------------- _extract_solution
\* f"{n:02d}": the decimal digits of n, padded to two.
two_digits(n) == IF n < 10 THEN << 0, n >> ELSE << n \div 10, n % 10 >>

\* f"{h:02d}:{m:02d}" of a number of minutes.
clock(minutes) == [hour |-> two_digits(minutes \div 60), minute |-> two_digits(minutes % 60)]

\* The time_slot string of an assignment: "HH:MM - HH:MM".
time_slot(assignment) ==
    LET start_time_minutes == assignment.period * 45
        end_time_minutes   == start_time_minutes + (assignment.duration * 45)
    IN  [from |-> clock(start_time_minutes), to |-> clock(end_time_minutes)]

\* The schedule record of one section of an assignment.
schedule_entry(assignment, section_id) ==
    [course_id        |-> assignment.course_id,
     type             |-> assignment.session_type,
     day              |-> assignment.day,
     period           |-> assignment.period + 1,
     start_period     |-> assignment.period + 1,
     end_period       |-> assignment.period + assignment.duration,
     time_slot        |-> time_slot(assignment),
     duration_periods |-> assignment.duration,
     duration_minutes |-> assignment.duration * 45,
     room_id          |-> assignment.room_id,
     instructor_id    |-> assignment.instructor_id,
     group_id         |-> section_by_id(section_id).group_id,
     section_id       |-> section_id,
     period_alignment |-> IF assignment.duration = 2
                          THEN (IF assignment.period % 2 = 0 THEN "Even" ELSE "Odd")
                          ELSE "Any"]

\* result['schedule']: one record per section of every assignment of the timetable.
_extract_solution ==
    UNION {{schedule_entry(a, a.sections[i]) : i \in 1..Len(a.sections)} :
           a \in TimetableAssignments}

\* The day-start clock the time strings are declared to derive from, in minutes.
C31_DayStartMinutes == 9 * 60

\* C31: in a returned schedule, the time_slot of a record that starts at 0-based period p
\* with duration d runs from 09:00 plus 45*p minutes to 09:00 plus 45*(p+d) minutes, its
\* start_period is p + 1 and its end_period is p + d.
C31_TimeSlotFromNine ==
    Backtracking /\ result = "success" =>
        /\ \A a \in TimetableAssignments :
              \A i \in 1..Len(a.sections) :
                  LET e == schedule_entry(a, a.sections[i])
                  IN  /\ e \in _extract_solution
                      /\ e.time_slot = [from |-> clock(C31_DayStartMinutes + 45 * a.period),
                                        to   |-> clock(C31_DayStartMinutes
                                                       + 45 * (a.period + a.duration))]
                      /\ e.start_period = a.period + 1
                      /\ e.end_period = a.period + a.duration

\* ---------------------------------------------------------------- properties: placements of TimetableSolver
Greedy == strategy = "greedy" /\ "scheduled_hours" \in DOMAIN solver

\* The cells where a placement starts for a section.
TS_starts == {c \in DOMAIN solver.timetable : ~solver.timetable[c].is_continuation}

\* The slots a placement that starts at cell c occupies.
TS_span(c) == c[1]..(c[1] + solver.timetable[c].duration - 1)

\* Two start cells belong to one placement: one _place_assignment call wrote both.
TS_same_placement(c, d) ==
    /\ c[1] = d[1]
    /\ solver.timetable[c].component_id = solver.timetable[d].component_id
    /\ solver.timetable[c].instructor_id = solver.timetable[d].instructor_id
    /\ solver.timetable[c].room_id = solver.timetable[d].room_id
    /\ solver.timetable[c].duration = solver.timetable[d].duration

\* C32: at every point of the lecture, lab and tutorial phases and after every move of
\* _optimize_schedule, two different placements that share a slot have different
\* instructors, different rooms and no section in common, and every slot of a placement
\* holds that placement in the row of each of its sections.
C32_NoDoubleUse ==
    Greedy =>
        /\ \A c, d \in TS_starts :
              /\ ~TS_same_placement(c, d)
              /\ TS_span(c) \cap TS_span(d) # {}
              => /\ solver.timetable[c].instructor_id # solver.timetable[d].instructor_id
                 /\ solver.timetable[c].room_id # solver.timetable[d].room_id
                 /\ c[2] # d[2]
        /\ \A c \in TS_starts :
              \A s \in TS_span(c) :
                  /\ <<s, c[2]>> \in DOMAIN solver.timetable
                  /\ solver.timetable[<<s, c[2]>>] =
                        [solver.timetable[c] EXCEPT !.is_continuation = (s # c[1])]
        /\ \A c \in DOMAIN solver.timetable :
              \E d \in TS_starts : d[2] = c[2] /\ c[1] \in TS_span(d)

\* The optimizer has moved a lab or a tutorial into the preferred band, where it shares
\* a slot with another placement.
C32_Witness ==
    /\ Greedy
    /\ phase.name \in {"optimize", "statistics", "done"}
    /\ \E c, d \in TS_starts :
          /\ solver.timetable[c].type # "lecture"
          /\ c[1] >= PREFERRED_SLOTS[1]
          /\ ~TS_same_placement(c, d)
          /\ TS_span(c) \cap TS_span(d) # {}

\* create_response: day_idx = i // 8, period = i % 8.
SLOTS_PER_DAY == 8

day_idx(i) == i \div SLOTS_PER_DAY

\* C33: every placement of TimetableSolver lies within one day of the 5 x 8 grid: a
\* placement that starts at slot s with duration d has s div 8 = (s + d - 1) div 8.
C33_WithinOneDay ==
    Greedy =>
        \A c \in TS_starts :
            day_idx(c[1]) = day_idx(c[1] + solver.timetable[c].duration - 1)

\* ---------------------------------------------------------------- properties: the two strategies
\* The (course, kind type, cohort) sessions of a timetable.
SessionsOf(tt) == {<<tt[c].course_id, tt[c].session_type, tt[c].sections>> : c \in DOMAIN tt}

PlainCatalog == \A c \in Range(data.courses) : ~c.is_project /\ ~c.full_year

\* C34: on a catalog without is_project or full_year courses, solve_by_section succeeds
\* if and only if solve_by_course succeeds, and on success the two timetables hold the
\* same set of (course, kind type, cohort) sessions.
C34_StrategiesAgree ==
    Backtracking /\ PlainCatalog /\ first_run # << >> /\ result # "running" =>
        /\ (result = "success") <=> (first_run[1].result = "success")
        /\ result = "success" => SessionsOf(timetable) = SessionsOf(first_run[1].timetable)

\* The same comparison on the catalogs in which every section names a group of the
\* catalog.
C34_StrategiesAgreeOnKnownGroups ==
    ~has_dangling_section => C34_StrategiesAgree

\* ---------------------------------------------------------------- properties: solve_by_course as a search
\* The generated sessions that have a cohort.
GeneratedSessions ==
    {i \in 1..Len(_get_all_sessions_to_schedule) :
        _get_all_sessions_to_schedule[i].sections # << >>}

\* Every choice of (day, period, qualified instructor, suitable room) for the i-th
\* generated session.
SessionChoices(i) ==
    LET s == _get_all_sessions_to_schedule[i]
        lf == LoopFrame(i - 1, s.course, s.kind, s.sections)
    IN  {Assignment(data.courses[s.course].course_id,
                    data.courses[s.course].kinds[s.kind].type,
                    day, period, s.sections, lf.duration, instructor_id, room_id) :
            day \in 0..(DAYS - 1), period \in 0..(PERIODS_PER_DAY - 1),
            instructor_id \in Range(lf.qualified_instructors),
            room_id \in Range(lf.suitable_rooms)}

\* Alignment and the day bound.
Admissible(a) ==
    /\ a.duration >= 2 => a.period % 2 = 0
    /\ a.period + a.duration <= PERIODS_PER_DAY

\* The section, instructor and room exclusions between two assignments.
Compatible(a, b) ==
    SameCell(a, b) =>
        /\ ~ShareSection(a, b)
        /\ a.instructor_id # b.instructor_id
        /\ a.room_id = "N/A" \/ a.room_id # b.room_id

\* Some choice for each of the generated sessions from the i-th on is admissible and
\* compatible with the chosen ones and with each other.
RECURSIVE Completable(_, _)
Completable(i, chosen) ==
    IF i > Len(_get_all_sessions_to_schedule) THEN TRUE
    ELSE IF i \notin GeneratedSessions THEN Completable(i + 1, chosen)
    ELSE \E a \in SessionChoices(i) :
            /\ Admissible(a)
            /\ \A b \in chosen : Compatible(a, b)
            /\ Completable(i + 1, chosen \cup {a})

\* C35: solve_by_course returns failure only when no complete assignment exists, and a
\* schedule it returns holds a choice for every generated session, each aligned and
\* within its day, no two sharing a section, an instructor or a room in a cell.
C35_CompleteSearch ==
    strategy = "course" =>
        /\ result = "failed" => ~Completable(1, {})
        /\ result = "success" =>
              /\ \A i \in GeneratedSessions :
                    \E a \in TimetableAssignments : a \in SessionChoices(i)
              /\ \A a \in TimetableAssignments : Admissible(a)
              /\ \A a, b \in TimetableAssignments : a # b => Compatible(a, b)

\* ---------------------------------------------------------------- properties: the order of the search
\* The ids of the generated catalogs and the kind types, in ascending order.
SortedIds ==
    << "A", "B1", "B2", "B3", "B4", "C1", "C2", "C3", "C4", "C5", "C6", "C7", "C8", "C9",
       "CX", "D", "E", "G1-S1", "G1-S2", "G2-S1", "G3-S1", "GX-S1", "L1", "L2", "Lab",
       "Lecture", "N/A", "P1", "P2", "Project", "R1", "R2", "T1", "T2", "Tut" >>

IdsAscending(ids) == sorted_by(ids, [i \in 1..Len(ids) |-> Rank(ids[i], SortedIds)])

\* The generated sessions in the order of their occurrence ids: course id, then the
\* first section of the cohort, then the kind type.
RefSessions ==
    LET all == _get_all_sessions_to_schedule
        n == Len(SortedIds) + 1
        key(s) == (Rank(data.courses[s.course].course_id, SortedIds) * n
                   + (IF s.sections = << >> THEN 0 ELSE Rank(s.sections[1], SortedIds))) * n
                  + Rank(data.courses[s.course].kinds[s.kind].type, SortedIds)
    IN  sorted_by(all, [i \in 1..Len(all) |-> key(all[i])])

\* The loops of a session with its instructors and its rooms in ascending id order.
RefFrame(s) ==
    LET lf == LoopFrame(0, s.course, s.kind, s.sections)
    IN  [lf EXCEPT !.qualified_instructors = IdsAscending(@),
                   !.suitable_rooms = IdsAscending(@)]

RefAssignment(s, f, c) ==
    LET k == Candidate(f, c)
    IN  Assignment(data.courses[s.course].course_id,
                   data.courses[s.course].kinds[s.kind].type,
                   k.day, k.period, s.sections, f.duration, k.instructor_id, k.room_id)

\* The tests of _is_valid_assignment, against a set of chosen assignments.
RefValid(a, chosen) ==
    /\ ~(a.duration = 2 /\ a.period % 2 # 0)
    /\ ~(a.period + a.duration > PERIODS_PER_DAY)
    /\ \A b \in chosen : Compatible(a, b)

\* The first complete valid assignment in lexicographic order: the sessions from the
\* i-th on, the i-th from its c-th candidate on, given the chosen ones. A session is
\* passed over when each of its sections already has the course and type chosen.
RECURSIVE RefSearch(_, _, _)
RefSearch(i, c, chosen) ==
    IF i > Len(RefSessions) THEN [found |-> TRUE, schedule |-> chosen]
    ELSE LET s == RefSessions[i]
             f == RefFrame(s)
             done == \A j \in 1..Len(s.sections) :
                        \E b \in chosen :
                            /\ b.course_id = data.courses[s.course].course_id
                            /\ b.session_type = data.courses[s.course].kinds[s.kind].type
                            /\ s.sections[j] \in Range(b.sections)
             valid == {k \in c..(NumCandidates(f) - 1) :
                          RefValid(RefAssignment(s, f, k), chosen)}
             first == FirstOf(valid)
             rest == RefSearch(i + 1, 0, chosen \cup {RefAssignment(s, f, first)})
         IN  IF done THEN RefSearch(i + 1, 0, chosen)
             ELSE IF valid = {} THEN [found |-> FALSE, schedule |-> {}]
             ELSE IF rest.found THEN rest
             ELSE RefSearch(i, first + 1, chosen)

\* C36: the schedule solve_by_course returns is the first complete valid assignment in
\* lexicographic order, the sessions taken in occurrence-id order and the candidates of
\* a session by day, start period, instructor id and room id ascending, in whatever
\* order the catalog lists its courses, instructors and rooms.
C36_LexicographicFirst ==
    strategy = "course" /\ result = "success" =>
        /\ RefSearch(1, 0, {}).found
        /\ TimetableAssignments = RefSearch(1, 0, {}).schedule

\* ---------------------------------------------------------------- properties: place and remove
\* The assignments the loops of the top frame can still place: the candidates from the
\* cursor on that _is_valid_assignment accepts in the current state.
AcceptedAssignments ==
    IF stack = << >> \/ Top(stack).pc # "loop" THEN {}
    ELSE LET f == Top(stack)
             course == data.courses[f.course]
         IN  {Assignment(course.course_id, course.kinds[f.kind].type, Candidate(f, c).day,
                         Candidate(f, c).period, f.target_sections, f.duration,
                         Candidate(f, c).instructor_id, Candidate(f, c).room_id) :
                 c \in ValidCandidates(f)}

\* C37: from every state of a search and for every assignment that _is_valid_assignment
\* accepts there, _place_assignment followed by _remove_assignment of that assignment
\* gives back the timetable, instructor_busy, room_busy and scheduled_sessions of the
\* state.
C37_PlaceThenRemoveRestores ==
    Backtracking =>
        \A a \in AcceptedAssignments :
            /\ timetable_removed(timetable_placed(timetable, a), a) = timetable
            /\ (instructor_busy \cup Slots(a.instructor_id, a.day, a.period, a.duration))
                  \ Slots(a.instructor_id, a.day, a.period, a.duration) = instructor_busy
            /\ busy_removed(busy_placed(room_busy, a.room_id, a), a.room_id, a) = room_busy
            /\ sessions_removed(sessions_placed(scheduled_sessions, a), a)
                  = scheduled_sessions

\* An accepted assignment in a state that holds other assignments, after a backtrack.
C37_Witness ==
    /\ Backtracking
    /\ AcceptedAssignments # {}
    /\ timetable # << >>
    /\ backtracks > 0

\* ---------------------------------------------------------------- properties: the indexes of the timetable
\* C38: at every state of either search, instructor_busy and room_busy are exactly the
\* (instructor, day, period) and (room other than "N/A", day, period) cells that the
\* assignments stored in timetable cover, and scheduled_sessions[s] holds (course, type)
\* if and only if timetable holds an assignment of that course and type whose sections
\* include s.
C38_IndexesMatchTimetable ==
    Backtracking =>
        /\ instructor_busy =
              UNION {Slots(a.instructor_id, a.day, a.period, a.duration) :
                        a \in TimetableAssignments}
        /\ room_busy =
              UNION {Slots(a.room_id, a.day, a.period, a.duration) :
                        a \in {b \in TimetableAssignments : b.room_id # "N/A"}}
        /\ \A s \in SectionIds :
              scheduled_sessions[s] =
                  {<<a.course_id, a.session_type>> :
                      a \in {b \in TimetableAssignments : s \in Range(b.sections)}}

\* ---------------------------------------------------------------- properties: the order of the sections
\* The (course, type) pairs solve_by_section has to schedule for a section: the kinds
\* of its eligible courses that are no project and whose cohorts include the section.
required_sessions(section) ==
    {<<data.courses[ci].course_id, data.courses[ci].kinds[ki].type>> :
        <<ci, ki>> \in
            {p \in UNION {{<<c, k>> : k \in 1..Len(data.courses[c].kinds)} :
                              c \in eligible_courses(section)} :
                /\ ~data.courses[p[1]].is_project
                /\ target_sections_of(data.courses[p[1]],
                                      data.courses[p[1]].kinds[p[2]], section) # <<>>}}

has_assignment(section, cs) ==
    \E a \in TimetableAssignments :
        /\ a.course_id = cs[1]
        /\ a.session_type = cs[2]
        /\ section.section_id \in Range(a.sections)

PlacedStep ==
    /\ Len(log') = Len(log) + 1
    /\ log'[Len(log')][1] = "place"

\* C39: in solve_by_section the sections are completed in list order: whenever an
\* assignment is placed while the search works on sections[k], every required
\* non-project session of each of sections[0..k-1] already has an assignment in the
\* timetable, and the cohort of the placed assignment contains sections[k].
C39_SectionsInListOrder ==
    [][(strategy = "section" /\ stack # << >> /\ PlacedStep) =>
          LET k == Top(stack).idx
              a == log'[Len(log')][2]
          IN  /\ data.sections[k + 1].section_id \in Range(a.sections)
              /\ \A j \in 1..k :
                    \A cs \in required_sessions(data.sections[j]) :
                        has_assignment(data.sections[j], cs)]_vars

\* ---------------------------------------------------------------- properties: termination
\* C40: for every finite catalog solve_by_section and solve_by_course terminate,
\* returning success or failure after finitely many placements and removals: a search
\* that is still running has a call frame to go on with, and a search that has ended
\* has returned success or failure.
C40_ReturnsSuccessOrFailure ==
    Backtracking =>
        /\ result = "running" => stack # << >>
        /\ result # "running" => result \in {"success", "failed"}

\* No chain of calls comes back to a state it has been in: every step of a search
\* places or removes an assignment, or else makes a deeper call, or else enters the
\* loops of the frame it is in, or else ends the search.
C40_EveryStepAdvances ==
    [][(Backtracking /\ expired' = expired) =>
          \/ result' # "running"
          \/ Len(log') > Len(log)
          \/ Len(log') = Len(log) /\ Len(stack') > Len(stack)
          \/ /\ Len(log') = Len(log)
             /\ Len(stack') = Len(stack)
             /\ Top(stack).pc = "call"
             /\ Top(stack').pc = "loop"]_vars

====
